---- MODULE Spec2Model ----
(***************************************************************************)
(* Model of the car-listing pipeline:                                      *)
(*   - CarDatabase (DataPipeline/database.py): the SQLite store with the   *)
(*     tables listings, price_history, listing_history, nhtsa_enrichment;  *)
(*   - CarScraper.run (DataPipeline/DataAquisition.py): the click loop     *)
(*     over the "load more" buttons;                                       *)
(*   - NHTSAEnricher.enrich_database (DataPipeline/NHTSA_enrichment.py).   *)
(***************************************************************************)
EXTENDS Bags, FiniteSets, Integers, Sequences, TLC

----------------------------------------------------------------------------
(* Bounds of the model *)

\* longest rows list handed to one insert_rows call
MaxRows == 2
\* most rows a history table holds before insert_rows is no longer explored
MaxHistRows == 3
\* most sub-sources (entries of Config.CONTINUE_BUTTONS_XPATH) of a run
\* against a simulated page
MaxButtons == 2
\* most times the simulated page lets one "load more" button be clicked
MaxClicks == 2
\* the same two bounds for a run against a page with faults
MaxFaultyButtons == 2
MaxFaultyClicks == 1
\* most sub-sources of a run against a page whose response bodies may be
\* missing
MaxBodyButtons == 1
\* most network events the browser buffers between two polls of its log
MaxLog == 2
\* max_workers of NHTSAEnricher
MaxWorkers == 2
\* most vins with a snapshot when enrich_database starts
MaxBacklog == 3
\* vins per request of the primary decode service (MAX_BATCH_SIZE, 50 in the code)
MaxBatchSize == 2
\* the clock of the rate-limit gate runs up to MaxClock
MaxClock == 4
\* rate_limit_delay is at most MaxDelay
MaxDelay == 1

----------------------------------------------------------------------------
(* Values *)

\* Python None / SQL NULL of a scalar column (dates, prices, mileages, trends)
NULL == "NULL"
\* Python None in the place of a vin (vins are sequences of characters)
None == <<"None">>

VGood1 == <<"A", "B", "1">>
VGood2 == <<"A", "B", "2">>
VShort == <<"A", "B">>
VMasked == <<"A", "*", "B", "2">>

\* Python truthiness of a vin: None and the empty string are falsy
TruthyVin(v) == v # None /\ v # <<>>
\* Python truthiness of a scalar string value
TruthyStr(s) == s # NULL /\ s # ""

\* a column value of a type sqlite3 cannot bind (a dict, a list): execute
\* raises sqlite3.InterfaceError / ProgrammingError, subclasses of sqlite3.Error
Unsupported == "{}"
\* an int beyond 64 bits: execute raises OverflowError, no sqlite3.Error
\* (likewise a string with a lone surrogate: UnicodeEncodeError)
TooLarge == "2^70"

\* a dict of enrichment columns is a set of <<column, value>> pairs
EmptyMap == {}
Columns(data) == {p[1] : p \in data}
\* columns CREATE TABLE nhtsa_enrichment declares: one of the decode columns
\* and one of the columns of each auxiliary service
EnrichmentColumns ==
    {"nhtsa_Make", "nhtsa_overall_rating", "nhtsa_total_recalls",
     "nhtsa_total_complaints"}

----------------------------------------------------------------------------
(* State *)

VARIABLES
    listings,          \* table listings: set of rows [vin, loaddate, price]
    price_history,     \* table price_history: bag of rows (the id column is the copy)
    listing_history,   \* table listing_history: bag of rows
    nhtsa_enrichment,  \* table nhtsa_enrichment: set of rows [vin, data]
    inserted_count,    \* value returned by the last insert_rows call
    last               \* the last store call: [op, arg, backlog, replaced, raised],
                       \* where backlog is get_vins_for_enrichment() before the
                       \* call, replaced the listings rows the call wrote over,
                       \* and raised tells that an exception left the call

\* the one sqlite3 connection of a CarDatabase (self.conn)
VARIABLES
    transaction,       \* the open transaction of the connection: the writes not
                       \* yet committed, a sequence of [thread, op, arg]
    open_calls         \* for each thread, its latest store call in steps:
                       \* [state, op, arg, seen], where seen is the transaction
                       \* the call found when it began

\* CarScraper and its Config
VARIABLES
    pc,                       \* position of CarScraper.run
    DRIVER_RESTART_INTERVAL,  \* Config.DRIVER_RESTART_INTERVAL
    CONTINUE_BUTTONS_XPATH,   \* Config.CONTINUE_BUTTONS_XPATH: the buttons 1..n in dict order
    iteration,                \* local iteration of run
    any_button_clicked,       \* local any_button_clicked of run
    button,                   \* position of "for button_name, button_xpath in ..."
    retry_count,              \* local retry_count of run
    unclickable_buttons,      \* self.unclickable_buttons
    seen_api_request_ids,     \* self.seen_api_request_ids
    perf_log,                 \* the driver's buffered "performance" log: requestIds
    cleanups,                 \* number of cleanup() calls of the run
    logs,                     \* local logs of the last _parse_performance_logs call
    fetched                   \* the Network.getResponseBody calls of the run, as a bag
                              \* of <<requestId, "body" or "none">>

\* the rendering collaborator and the record of the run
VARIABLES
    clicks_left,        \* per button: how often the page still lets it be clicked
    clicks_init,        \* clicks_left at the start of the run
    clicks_ok,          \* number of successful clicks so far
    productive_rounds,  \* number of rounds that ended with any_button_clicked
    outcome             \* the last click attempt: [kind, button, retry_count], its
                        \* round, and the buttons clicked and the buttons whose
                        \* retries ran out in that round

connVars == <<transaction, open_calls>>
storeVars == <<listings, price_history, listing_history, nhtsa_enrichment,
               inserted_count, last, connVars>>
driverVars == <<pc, DRIVER_RESTART_INTERVAL, CONTINUE_BUTTONS_XPATH, iteration,
                any_button_clicked, button, retry_count, unclickable_buttons,
                seen_api_request_ids, perf_log, cleanups, logs, fetched>>
pageVars == <<clicks_left, clicks_init, clicks_ok, productive_rounds, outcome>>

\* NHTSAEnricher.enrich_database
VARIABLES
    epc,               \* position of enrich_database
    vins_to_process,   \* local vins_to_process
    batches,           \* local batches
    submitted,         \* number of batches the executor has handed to a worker
    workers,           \* per worker thread: the locals of its process_batch call
    cache_safety,      \* self.cache_safety
    cache_recalls,     \* self.cache_recalls
    cache_complaints,  \* self.cache_complaints
    total_enriched,    \* local total_enriched
    processed_count,   \* local processed_count
    finished,          \* the batches whose process_batch call has ended
    rate_limit_delay,  \* self.rate_limit_delay
    max_workers,       \* self.max_workers
    last_request_time, \* self.last_request_time
    cache_lock,        \* self.cache_lock: the thread that holds it, 0 when free
    now,               \* what time.time() returns
    calls,             \* the requests sent so far: a bag of <<service, key>>
    store_calls        \* the insert_nhtsa_enrichment_batch calls of the pass: a
                       \* bag of <<batch, number of vins handed over>>

poolVars == <<epc, vins_to_process, batches, submitted>>
cacheVars == <<cache_safety, cache_recalls, cache_complaints>>
countVars == <<total_enriched, processed_count, finished, store_calls>>
gateVars == <<last_request_time, cache_lock, now>>
configVars == <<rate_limit_delay, max_workers>>
enrichVars == <<poolVars, workers, cacheVars, countVars, gateVars, configVars, calls>>
vars == <<storeVars, driverVars, pageVars, enrichVars>>

----------------------------------------------------------------------------
(* CarDatabase *)

\* an INSERT into a listings table that lacks the primary key
InsertListingNoKey(tbl, row) ==
    tbl \cup {[vin |-> row.vin, loaddate |-> row.loaddate, price |-> row.price]}

\* a listings table keyed by vin alone: a new snapshot replaces the older ones
InsertOrReplaceByVin(tbl, row) ==
    {r \in tbl : r.vin # row.vin}
        \cup {[vin |-> row.vin, loaddate |-> row.loaddate, price |-> row.price]}

\* INSERT OR REPLACE INTO listings ... with PRIMARY KEY (vin, loaddate)
InsertOrReplaceListing(tbl, row) ==
    {r \in tbl : ~(r.vin = row.vin /\ r.loaddate = row.loaddate)}
        \cup {[vin |-> row.vin, loaddate |-> row.loaddate, price |-> row.price]}

\* SQLite compares the columns of a UNIQUE constraint with NULLs distinct
UniqueColEq(a, b) == a # NULL /\ b # NULL /\ a = b

\* a price_history insert that replaces the stored row of the same key
InsertOrReplacePriceHistory(tbl, vin, h) ==
    LET new == [vin |-> vin, history_date |-> h.date, mileage |-> h.mileage,
                price |-> h.price, trend |-> h.trend]
    IN  SetToBag({r \in BagToSet(tbl) :
                      ~(r.vin = new.vin /\ r.history_date = new.history_date
                                       /\ r.price = new.price)})
            (+) SetToBag({new})

\* INSERT OR IGNORE INTO price_history ... with UNIQUE(vin, history_date, price)
InsertOrIgnorePriceHistory(tbl, vin, h) ==
    LET new == [vin |-> vin, history_date |-> h.date, mileage |-> h.mileage,
                price |-> h.price, trend |-> h.trend]
    IN  IF \E r \in BagToSet(tbl) :
              /\ UniqueColEq(r.vin, new.vin)
              /\ UniqueColEq(r.history_date, new.history_date)
              /\ UniqueColEq(r.price, new.price)
        THEN tbl
        ELSE tbl (+) SetToBag({new})

\* INSERT OR IGNORE INTO listing_history ... with UNIQUE(vin, history_date, price, mileage)
InsertOrIgnoreListingHistory(tbl, vin, h) ==
    LET new == [vin |-> vin, history_date |-> h.date, mileage |-> h.mileage,
                price |-> h.price]
    IN  IF \E r \in BagToSet(tbl) :
              /\ UniqueColEq(r.vin, new.vin)
              /\ UniqueColEq(r.history_date, new.history_date)
              /\ UniqueColEq(r.price, new.price)
              /\ UniqueColEq(r.mileage, new.mileage)
        THEN tbl
        ELSE tbl (+) SetToBag({new})

\* for h in history_data: INSERT OR IGNORE INTO price_history
RECURSIVE PriceHistoryLoop(_, _, _)
PriceHistoryLoop(tbl, vin, hs) ==
    IF hs = <<>> THEN tbl
    ELSE PriceHistoryLoop(InsertOrIgnorePriceHistory(tbl, vin, Head(hs)), vin, Tail(hs))

\* for h in history_data: INSERT OR IGNORE INTO listing_history
RECURSIVE ListingHistoryLoop(_, _, _)
ListingHistoryLoop(tbl, vin, hs) ==
    IF hs = <<>> THEN tbl
    ELSE ListingHistoryLoop(InsertOrIgnoreListingHistory(tbl, vin, Head(hs)), vin, Tail(hs))

\* the row guard of insert_rows: "if not vin or not loaddate: continue"
RowSkipped(row) == ~TruthyVin(row.vin) \/ ~TruthyStr(row.loaddate)

\* cursor.execute of the snapshot insert raises sqlite3.Error: "continue"
InsertFails(row) == row.price = Unsupported

\* cursor.execute of the snapshot insert raises another exception: it leaves
\* insert_rows
InsertRaises(row) == row.price = TooLarge

\* a loop that lets a row without vin or loaddate end the call
RowRaisesWithoutKey(row) == RowSkipped(row) \/ InsertRaises(row)

\* the loop comes to the insert of the row, which raises
RowRaises(row) == ~RowSkipped(row) /\ InsertRaises(row)

\* an exception leaves the loop over rows
LoopRaises(rows) == \E i \in DOMAIN rows : RowRaises(rows[i])

\* the row gets its snapshot written when the loop comes to it
RowWritten(row) == ~RowSkipped(row) /\ ~InsertFails(row) /\ ~InsertRaises(row)

\* a loop body that writes the history entries of a row whose snapshot
\* insert failed
InsertRowWithHistory(db, row) ==
    IF RowSkipped(row) THEN db
    ELSE [listings        |-> IF InsertFails(row) THEN db.listings
                              ELSE InsertOrReplaceListing(db.listings, row),
          inserted_count  |-> IF InsertFails(row) THEN db.inserted_count
                              ELSE db.inserted_count + 1,
          price_history   |-> PriceHistoryLoop(db.price_history, row.vin, row.priceHistory),
          listing_history |-> ListingHistoryLoop(db.listing_history, row.vin, row.listingHistory),
          raised          |-> FALSE]

\* the body of "for row in rows" of insert_rows, on the tables db, for a row
\* whose insert does not leave the loop
InsertRow(db, row) ==
    IF RowSkipped(row) \/ InsertFails(row) THEN db
    ELSE [listings        |-> InsertOrReplaceListing(db.listings, row),
          inserted_count  |-> db.inserted_count + 1,
          price_history   |-> PriceHistoryLoop(db.price_history, row.vin, row.priceHistory),
          listing_history |-> ListingHistoryLoop(db.listing_history, row.vin, row.listingHistory),
          raised          |-> FALSE]

\* "for row in rows", up to the row whose insert raises
RECURSIVE InsertRowsLoop(_, _)
InsertRowsLoop(db, rows) ==
    IF rows = <<>> THEN db
    ELSE IF RowRaises(Head(rows)) THEN db
    ELSE InsertRowsLoop(InsertRow(db, Head(rows)), Tail(rows))

\* "with self._get_connection() as conn" left by an exception: the
\* connection rolls the transaction of the call back, and nothing is returned
Rollback ==
    [listings |-> listings, inserted_count |-> inserted_count,
     price_history |-> price_history, listing_history |-> listing_history,
     raised |-> TRUE]


\* the tables after CarDatabase.insert_rows(rows), with its return value, or
\* with raised when an exception left the call
insert_rows(rows) ==
    IF LoopRaises(rows) THEN Rollback
    ELSE InsertRowsLoop([listings |-> listings, inserted_count |-> 0,
                         price_history |-> price_history,
                         listing_history |-> listing_history,
                         raised |-> FALSE], rows)

\* INSERT OR REPLACE INTO nhtsa_enrichment (columns) VALUES (...), vin PRIMARY KEY;
\* a column the table does not have raises sqlite3.Error, which is logged
InsertOrReplaceEnrichment(tbl, vin, data) ==
    IF Columns(data) \subseteq EnrichmentColumns
    THEN {r \in tbl : r.vin # vin} \cup {[vin |-> vin, data |-> data]}
    ELSE tbl

\* the body of "for vin, enrichment_data in enrichment_dict.items()"
InsertEnrichment(tbl, vin, data) ==
    IF data = EmptyMap THEN tbl
    ELSE InsertOrReplaceEnrichment(tbl, vin, data)

RECURSIVE InsertEnrichmentLoop(_, _, _)
InsertEnrichmentLoop(tbl, dict, todo) ==
    IF todo = {} THEN tbl
    ELSE LET vin == CHOOSE v \in todo : TRUE
         IN  InsertEnrichmentLoop(InsertEnrichment(tbl, vin, dict[vin]), dict,
                                  todo \ {vin})

\* the table after CarDatabase.insert_nhtsa_enrichment_batch(enrichment_dict)
insert_nhtsa_enrichment_batch(dict) ==
    InsertEnrichmentLoop(nhtsa_enrichment, dict, DOMAIN dict)

\* the table after CarDatabase.insert_nhtsa_enrichment(vin, enrichment_data)
insert_nhtsa_enrichment(vin, data) ==
    insert_nhtsa_enrichment_batch([v \in {vin} |-> data])

\* the row of NULLs a LEFT JOIN pairs with an unmatched left row
NullEnrichmentRow == [vin |-> None, data |-> EmptyMap]

\* listings l LEFT JOIN nhtsa_enrichment n ON l.vin = n.vin
LeftJoin(L, N) ==
    {p \in L \X N : p[1].vin = p[2].vin}
        \cup {<<l, NullEnrichmentRow>> : l \in {k \in L : ~\E m \in N : m.vin = k.vin}}

\* the query without its WHERE clause: every vin of listings
AllListingVins(L, N) == {p[1].vin : p \in LeftJoin(L, N)}

\* SELECT DISTINCT l.vin FROM ... WHERE n.vin IS NULL, on the given tables
VinsForEnrichment(L, N) ==
    {p[1].vin : p \in {q \in LeftJoin(L, N) : q[2].vin = None}}

\* CarDatabase.get_vins_for_enrichment() in the current state
get_vins_for_enrichment == VinsForEnrichment(listings, nhtsa_enrichment)

----------------------------------------------------------------------------
(* Inputs of the store specification *)

\* a row as _extract_rows_from_api_data builds it (price stands for the
\* twenty non-key columns; an absent or empty history is the empty list)
Row(vin, loaddate, price, priceHistory, listingHistory) ==
    [vin |-> vin, loaddate |-> loaddate, price |-> price,
     priceHistory |-> priceHistory, listingHistory |-> listingHistory]

\* an element of a priceHistory / listingHistory list
Entry(date, mileage, price, trend) ==
    [date |-> date, mileage |-> mileage, price |-> price, trend |-> trend]

\* rows without nested history: two writes of one key, a second date, a
\* second vin, and rows whose vin or loaddate is None or empty
PlainRows ==
    {Row(VGood1, "2024-01-01", "p1", <<>>, <<>>),
     Row(VGood1, "2024-01-01", "p2", <<>>, <<>>),
     Row(VShort, "2024-01-02", "p1", <<>>, <<>>),
     Row(None, "2024-01-01", "p1", <<>>, <<>>),
     Row(<<>>, "2024-01-01", "p1", <<>>, <<>>),
     Row(VGood1, "", "p1", <<>>, <<>>)}

\* history entries: a full one, one with the same date and price but another
\* mileage and trend, and entries without date, price or mileage
HistoryEntries ==
    {Entry("2023-12-01", "k1", "p1", "up"),
     Entry("2023-12-01", "k2", "p1", "down"),
     Entry(NULL, "k1", "p1", "up"),
     Entry("2023-12-01", "k1", NULL, "up"),
     Entry("2023-12-01", NULL, "p1", "up")}

\* rows of one listing that carry a history entry in priceHistory, in
\* listingHistory or in both
HistoryRows ==
    {Row(VGood1, "2024-01-01", "p1", <<h>>, <<h>>) : h \in HistoryEntries}
        \cup {Row(VGood1, "2024-01-01", "p1", <<h>>, <<>>) : h \in HistoryEntries}
        \cup {Row(VGood1, "2024-01-01", "p1", <<>>, <<h>>) : h \in HistoryEntries}

\* snapshots of one vin on two dates, each with a history entry of the same
\* date and price, and a row whose insert raises OverflowError
DatedRows ==
    {Row(VGood1, "2024-01-01", "p1", <<Entry("2023-12-01", "k1", "p1", "up")>>,
                                     <<Entry("2023-12-01", "k1", "p1", "up")>>),
     Row(VGood1, "2024-01-02", "p2", <<Entry("2023-12-01", "k2", "p1", "down")>>,
                                     <<Entry("2023-12-01", "k2", "p1", "down")>>),
     Row(VGood2, "2024-01-01", TooLarge, <<>>, <<>>)}

\* rows of one batch that fare differently: a snapshot with a history entry,
\* another snapshot of its key, a row without vin, a row without loaddate, a
\* row whose insert fails with sqlite3.Error and a row whose insert raises
\* OverflowError
FaultyRows ==
    {Row(VGood1, "2024-01-01", "p1", <<Entry("2023-12-01", "k1", "p1", "up")>>, <<>>),
     Row(VGood1, "2024-01-01", "p2", <<>>, <<>>),
     Row(<<>>, "2024-01-01", "p1", <<Entry("2023-12-01", "k1", "p1", "up")>>, <<>>),
     Row(VGood2, "", "p1", <<>>, <<Entry("2023-12-01", "k1", "p1", "up")>>),
     Row(VGood2, "2024-01-01", Unsupported, <<Entry("2023-12-01", "k1", "p1", "up")>>, <<>>),
     Row(VGood2, "2024-01-01", TooLarge, <<>>, <<>>)}

SeqsUpTo(S, n) == UNION {[1..k -> S] : k \in 0..n}

EnrichVins == {VGood1, VShort}
FieldMaps == {EmptyMap, {<<"nhtsa_Make", "m1">>}, {<<"nhtsa_Make", "m2">>},
              {<<"nosuchcol", "x">>}}
EnrichDicts == UNION {[S -> FieldMaps] : S \in SUBSET EnrichVins}

----------------------------------------------------------------------------
(* The connection *)

\* the thread that ran CarDatabase.__init__ and opened the connection: the
\* caller of enrich_database, thread 0
ConnectionThread == 0

\* a connection that serves every thread
AnyThread(thread) == TRUE

\* sqlite3.connect(self.db_path, timeout=30) keeps check_same_thread at its
\* default: the connection serves only the thread that created it
SameThread(thread) == thread = ConnectionThread

\* the worker threads of the ThreadPoolExecutor
Threads == 1..MaxWorkers

\* the threads that call the store
Callers == {ConnectionThread} \cup Threads

NoCall == [state |-> "none", op |-> "none", arg |-> <<>>, seen |-> <<>>]

\* self.conn after __init__: _init_db has committed, no call is open
InitConnection ==
    /\ transaction = <<>>
    /\ open_calls = [t \in Callers |-> NoCall]

----------------------------------------------------------------------------
(* Store operations *)

InitStore ==
    /\ listings = {}
    /\ price_history = EmptyBag
    /\ listing_history = EmptyBag
    /\ nhtsa_enrichment = {}
    /\ inserted_count = 0
    /\ last = [op |-> "init", arg |-> <<>>, backlog |-> {}, replaced |-> {}, raised |-> FALSE]
    /\ InitConnection

InsertRows(rows) ==
    \E db \in {insert_rows(rows)} :
    /\ BagCardinality(db.price_history) <= MaxHistRows
    /\ BagCardinality(db.listing_history) <= MaxHistRows
    /\ listings' = db.listings
    /\ price_history' = db.price_history
    /\ listing_history' = db.listing_history
    /\ inserted_count' = db.inserted_count
    /\ last' = [op |-> "insert_rows", arg |-> rows,
                backlog |-> get_vins_for_enrichment,
                replaced |-> IF LoopRaises(rows) THEN {}
                             ELSE {r \in listings : \E i \in 1..Len(rows) :
                                      /\ RowWritten(rows[i])
                                      /\ rows[i].vin = r.vin
                                      /\ rows[i].loaddate = r.loaddate},
                raised |-> LoopRaises(rows)]
    /\ UNCHANGED <<nhtsa_enrichment, connVars>>

InsertNhtsaEnrichmentBatch(dict) ==
    /\ nhtsa_enrichment' = insert_nhtsa_enrichment_batch(dict)
    /\ last' = [op |-> "insert_nhtsa_enrichment_batch", arg |-> dict,
                backlog |-> get_vins_for_enrichment, replaced |-> {}, raised |-> FALSE]
    /\ UNCHANGED <<listings, price_history, listing_history, inserted_count, connVars>>

InsertNhtsaEnrichment(vin, data) ==
    /\ nhtsa_enrichment' = insert_nhtsa_enrichment(vin, data)
    /\ last' = [op |-> "insert_nhtsa_enrichment", arg |-> [v \in {vin} |-> data],
                backlog |-> get_vins_for_enrichment, replaced |-> {}, raised |-> FALSE]
    /\ UNCHANGED <<listings, price_history, listing_history, inserted_count, connVars>>

----------------------------------------------------------------------------
(* Store calls in steps, for callers on several threads *)

\* the rows an open insert_rows / insert_nhtsa_enrichment_batch call has
\* executed on the connection
Write(thread, op, arg) == [thread |-> thread, op |-> op, arg |-> arg]

\* the tables with the writes of a transaction made permanent, in their order
RECURSIVE CommitWrites(_, _)
CommitWrites(db, writes) ==
    IF writes = <<>> THEN db
    ELSE LET w == Head(writes)
             next ==
                 IF w.op = "insert_rows"
                 THEN LET t == InsertRowsLoop(
                                   [listings |-> db.listings, inserted_count |-> 0,
                                    price_history |-> db.price_history,
                                    listing_history |-> db.listing_history,
                                    raised |-> FALSE], w.arg)
                      IN  [db EXCEPT !.listings = t.listings,
                                     !.price_history = t.price_history,
                                     !.listing_history = t.listing_history]
                 ELSE [db EXCEPT !.nhtsa_enrichment =
                                     InsertEnrichmentLoop(@, w.arg, DOMAIN w.arg)]
         IN  CommitWrites(next, Tail(writes))

\* an exception leaves the call: insert_rows, at a row whose insert raises
\* an exception that is no sqlite3.Error
CallRaises(op, arg) == op = "insert_rows" /\ LoopRaises(arg)

\* "with self._get_connection() as conn: cursor = conn.cursor()" and the
\* loop of the call: the connection refuses a thread other than its own with
\* sqlite3.ProgrammingError, and so does the rollback of the with statement;
\* the rows of the thread it serves join the open transaction
BeginCall(thread, op, arg) ==
    /\ open_calls[thread].state # "open"
    /\ IF SameThread(thread)
       THEN /\ open_calls' = [open_calls EXCEPT ![thread] =
                                 [state |-> "open", op |-> op, arg |-> arg,
                                  seen |-> transaction]]
            /\ transaction' = Append(transaction, Write(thread, op, arg))
       ELSE /\ open_calls' = [open_calls EXCEPT ![thread] =
                                 [state |-> "refused", op |-> op, arg |-> arg,
                                  seen |-> transaction]]
            /\ UNCHANGED transaction
    /\ UNCHANGED <<listings, price_history, listing_history, nhtsa_enrichment,
                   inserted_count, last>>

\* the end of the call: conn.commit() makes the open transaction of the
\* connection permanent; an exception that left the loop makes the with
\* statement roll the open transaction back
EndCall(thread) ==
    LET call == open_calls[thread]
        db == CommitWrites([listings |-> listings, price_history |-> price_history,
                            listing_history |-> listing_history,
                            nhtsa_enrichment |-> nhtsa_enrichment], transaction)
    IN  /\ call.state = "open"
        /\ transaction' = <<>>
        /\ IF CallRaises(call.op, call.arg)
           THEN /\ open_calls' = [open_calls EXCEPT ![thread].state = "rolled back"]
                /\ UNCHANGED <<listings, price_history, listing_history,
                               nhtsa_enrichment, inserted_count>>
           ELSE /\ open_calls' = [open_calls EXCEPT ![thread].state = "committed"]
                /\ listings' = db.listings
                /\ price_history' = db.price_history
                /\ listing_history' = db.listing_history
                /\ nhtsa_enrichment' = db.nhtsa_enrichment
                /\ inserted_count' = IF call.op = "insert_rows"
                                     THEN insert_rows(call.arg).inserted_count
                                     ELSE inserted_count
        /\ last' = [op |-> call.op, arg |-> call.arg,
                    backlog |-> get_vins_for_enrichment, replaced |-> {},
                    raised |-> CallRaises(call.op, call.arg)]

----------------------------------------------------------------------------
(* CarScraper.run *)

\* Config.MAX_RETRIES
MAX_RETRIES == 3

\* the values of Config.DRIVER_RESTART_INTERVAL the model runs with
RestartIntervals == {0, 2}

\* date.today().isoformat() during the run
Today == "2024-01-01"

\* the vin of the listing the response with a requestId carries
VinOfResponse(id) == <<"A", "B", ToString(id)>>

\* _extract_rows_from_api_data on the body of the response with a requestId
ExtractRowsFromApiData(id) == <<Row(VinOfResponse(id), Today, "p1", <<>>, <<>>)>>

RECURSIVE ConcatAll(_)
ConcatAll(seqs) ==
    IF seqs = <<>> THEN <<>> ELSE Head(seqs) \o ConcatAll(Tail(seqs))

\* the state __init__ leaves, with the configuration and the page of the run
InitScraper(interval, n, clicks) ==
    /\ pc = "Idle"
    /\ DRIVER_RESTART_INTERVAL = interval
    /\ CONTINUE_BUTTONS_XPATH = n
    /\ iteration = 1
    /\ any_button_clicked = FALSE
    /\ button = 1
    /\ retry_count = 0
    /\ unclickable_buttons = {}
    /\ seen_api_request_ids = {}
    /\ perf_log = <<>>
    /\ cleanups = 0
    /\ logs = <<>>
    /\ fetched = EmptyBag
    /\ clicks_left = clicks
    /\ clicks_init = clicks
    /\ clicks_ok = 0
    /\ productive_rounds = 0
    /\ outcome = [kind |-> "none", button |-> 0, retry_count |-> 0, round |-> 0,
                  clicked |-> {}, retried_out |-> {}]

\* a for loop that attempts every button, unclickable or not
SkipNone(from, n, skip) == from

\* "if button_name in self.unclickable_buttons: continue": the first button at
\* or after position from that is attempted, n + 1 when the for loop is over
RECURSIVE SkipUnclickable(_, _, _)
SkipUnclickable(from, n, skip) ==
    IF from > n THEN n + 1
    ELSE IF from \in skip THEN SkipUnclickable(from + 1, n, skip)
    ELSE from

\* "iteration > 1 and iteration % DRIVER_RESTART_INTERVAL == 0"
RestartDue ==
    /\ DRIVER_RESTART_INTERVAL # 0
    /\ iteration > 1
    /\ iteration % DRIVER_RESTART_INTERVAL = 0

\* a run that goes from the last button straight to the continue check
AfterButtonsNoExtraction(next) ==
    IF next > CONTINUE_BUTTONS_XPATH THEN "Check" ELSE "Click"

\* where run goes once the for loop has no button left
AfterButtons(next) == IF next > CONTINUE_BUTTONS_XPATH THEN "Extract" ELSE "Click"

\* run() up to the first "while True"
StartRun ==
    /\ pc = "Idle"
    /\ pc' = "RoundStart"
    /\ UNCHANGED <<cleanups, logs, fetched, enrichVars, storeVars, pageVars, DRIVER_RESTART_INTERVAL, CONTINUE_BUTTONS_XPATH,
                   iteration, any_button_clicked, button, retry_count,
                   unclickable_buttons, seen_api_request_ids, perf_log>>

\* the top of the while loop: restart_driver when it is due (it clears
\* unclickable_buttons and starts a driver with an empty log), then
\* any_button_clicked = False and the first button of the for loop
BeginRound ==
    /\ pc = "RoundStart"
    /\ LET cleared == IF RestartDue THEN {} ELSE unclickable_buttons
           first == SkipUnclickable(1, CONTINUE_BUTTONS_XPATH, cleared)
       IN  /\ unclickable_buttons' = cleared
           /\ perf_log' = IF RestartDue THEN <<>> ELSE perf_log
           /\ button' = first
           /\ pc' = AfterButtons(first)
    /\ any_button_clicked' = FALSE
    /\ retry_count' = 0
    /\ UNCHANGED <<cleanups, logs, fetched, enrichVars, storeVars, pageVars, DRIVER_RESTART_INTERVAL, CONTINUE_BUTTONS_XPATH,
                   iteration, seen_api_request_ids>>

\* restart_driver raises (the new driver cannot load the page): the
\* "except Exception" of run logs it and the finally clause cleans up
RestartFails ==
    /\ pc = "RoundStart"
    /\ RestartDue
    /\ pc' = "Failed"
    /\ UNCHANGED <<cleanups, logs, fetched, enrichVars, storeVars, clicks_left, clicks_init, clicks_ok, productive_rounds,
                   outcome, DRIVER_RESTART_INTERVAL, CONTINUE_BUTTONS_XPATH, iteration,
                   any_button_clicked, button, retry_count, unclickable_buttons,
                   seen_api_request_ids, perf_log>>

\* what one pass through the body of "while retry_count < MAX_RETRIES" meets:
\*   clicked    _click_button returns True
\*   absent     _click_button returns False, the button is not on the page
\*   transient  _click_button returns False although the button is there
\*              (timeout of the wait, not interactable, no page load)
\*   disconnected  _click_button returns False because the browser is
\*              unreachable: its "except Exception" takes the
\*              WebDriverException of the lookup or the click
\*   retried    _handle_ribbon raises an exception that is neither a
\*              WebDriverException nor a ReadTimeoutError
\*   fatal      _handle_ribbon raises WebDriverException or ReadTimeoutError
AttemptKinds == {"clicked", "absent", "transient", "disconnected", "retried", "fatal"}

\* a run that counts a failed click as a click
AnyButtonClickedOnAttempt(before, kind) == before \/ kind \in {"clicked", "absent"}

\* "if self._click_button(button_xpath): ... any_button_clicked = True"
AnyButtonClicked(before, kind) == before \/ kind = "clicked"

\* a run that forgets the buttons it could not click
ExhaustedForgotten(exhausted, b, kind) == exhausted

\* "else: ... self.unclickable_buttons.add(button_name)": every False of
\* _click_button, whatever made it fail
Exhausted(exhausted, b, kind) ==
    IF kind \in {"absent", "transient", "disconnected"}
    THEN exhausted \cup {b}
    ELSE exhausted

\* a retry loop that gives up after the first retried exception
RetriesOverEarly(count) == count >= 1

\* a retry loop that allows one attempt more
RetriesOverLate(count) == count > MAX_RETRIES

\* "while retry_count < self.config.MAX_RETRIES" ends
RetriesOver(count) == count >= MAX_RETRIES

\* the buttons whose retry loop has ended in this round with its MAX_RETRIES-th
\* retried exception ("Failed to click ... after MAX_RETRIES attempts"), the
\* current attempt included
RetriedOut(kind) ==
    (IF outcome.round = iteration THEN outcome.retried_out ELSE {})
        \cup (IF kind = "retried" /\ retry_count + 1 = MAX_RETRIES THEN {button} ELSE {})

\* the buttons clicked in this round, the current attempt included
Clicked(kind) ==
    (IF outcome.round = iteration THEN outcome.clicked ELSE {})
        \cup (IF kind = "clicked" THEN {button} ELSE {})

\* one pass through the body of the retry loop for the current button
ClickAttempt(kind) ==
    /\ pc = "Click"
    /\ kind = "clicked" => clicks_left[button] > 0
    /\ kind = "absent" => clicks_left[button] = 0
    /\ kind = "transient" => clicks_left[button] > 0
    /\ outcome' = [kind |-> kind, button |-> button,
                   retry_count |-> IF kind = "retried" THEN retry_count + 1
                                   ELSE retry_count,
                   round |-> iteration,
                   clicked |-> Clicked(kind),
                   retried_out |-> RetriedOut(kind)]
    /\ LET exhausted == Exhausted(unclickable_buttons, button, kind)
           leave == \/ kind \in {"clicked", "absent", "transient", "disconnected"}
                    \/ kind = "retried" /\ RetriesOver(retry_count + 1)
           next == SkipUnclickable(button + 1, CONTINUE_BUTTONS_XPATH, exhausted)
       IN  /\ unclickable_buttons' = exhausted
           /\ any_button_clicked' = AnyButtonClicked(any_button_clicked, kind)
           /\ clicks_left' = IF kind = "clicked"
                             THEN [clicks_left EXCEPT ![button] = @ - 1]
                             ELSE clicks_left
           /\ clicks_ok' = IF kind = "clicked" THEN clicks_ok + 1 ELSE clicks_ok
           /\ perf_log' = IF kind = "clicked" THEN Append(perf_log, clicks_ok + 1)
                          ELSE perf_log
           /\ IF kind = "fatal"
              THEN pc' = "Aborted" /\ UNCHANGED <<button, retry_count>>
              ELSE IF leave
              THEN pc' = AfterButtons(next) /\ button' = next /\ retry_count' = 0
              ELSE pc' = "Click" /\ button' = button /\ retry_count' = retry_count + 1
    /\ UNCHANGED <<cleanups, logs, fetched, enrichVars, storeVars, clicks_init, productive_rounds, DRIVER_RESTART_INTERVAL,
                   CONTINUE_BUTTONS_XPATH, iteration, seen_api_request_ids>>

\* the requestIds of a log that _parse_performance_logs has not seen, in order
RECURSIVE UnseenRequestIds(_, _)
\* a parse that does not consult seen_api_request_ids
AllRequestIds(log, seen) == log

UnseenRequestIds(log, seen) ==
    IF log = <<>> THEN <<>>
    ELSE IF Head(log) \in seen THEN UnseenRequestIds(Tail(log), seen)
    ELSE <<Head(log)>> \o UnseenRequestIds(Tail(log), seen \cup {Head(log)})

\* a parse that adds a requestId to the seen set once its body is read
MarkedSeenAfterBody(ids, failed) == ids \ failed

\* self.seen_api_request_ids.add(request_id), before the body is asked for:
\* every new requestId, whatever the fetch of its body yields
MarkedSeen(ids, failed) == ids

\* execute_cdp_cmd("Network.getResponseBody", ...) for a requestId: the body,
\* or none when the call raises WebDriverException or the body is empty
GetResponseBody(id, failed) == <<id, IF id \in failed THEN "none" ELSE "body">>

\* "if not text: continue" and "except WebDriverException: continue", else
\* rows.extend(self._extract_rows_from_api_data(api_json))
RowsOfBody(id, failed) ==
    IF GetResponseBody(id, failed)[2] = "none" THEN <<>> ELSE ExtractRowsFromApiData(id)

\* _parse_performance_logs, in which the body fetch of the requestIds in
\* failed yields nothing, insert_rows when it returned rows, and
\* _clear_performance_logs (LOG_CLEANUP_INTERVAL = 1): get_log drains the log
ExtractWith(failed) ==
    /\ pc = "Extract"
    /\ LET ids == UnseenRequestIds(perf_log, seen_api_request_ids)
           api_rows == ConcatAll([i \in 1..Len(ids) |-> RowsOfBody(ids[i], failed)])
       IN  /\ seen_api_request_ids' =
                  seen_api_request_ids \cup MarkedSeen({ids[i] : i \in 1..Len(ids)}, failed)
           /\ fetched' = fetched (+) SetToBag({GetResponseBody(ids[i], failed) :
                                                  i \in 1..Len(ids)})
           /\ IF api_rows # <<>> THEN InsertRows(api_rows) ELSE UNCHANGED storeVars
    /\ logs' = perf_log
    /\ perf_log' = <<>>
    /\ pc' = "Check"
    /\ UNCHANGED <<cleanups, enrichVars, pageVars, DRIVER_RESTART_INTERVAL,
                   CONTINUE_BUTTONS_XPATH, iteration, any_button_clicked, button,
                   retry_count, unclickable_buttons>>

\* the extraction step when every body is fetched
Extract == ExtractWith({})

\* a loop that also ends after its second round
BreakAtCap(clicked, round) == ~clicked \/ round >= 2

\* "if not any_button_clicked: break": the number of the round plays no part
Break(clicked, round) == ~clicked

\* "if not any_button_clicked: break", else iteration += 1 and the next round
CheckContinue ==
    /\ pc = "Check"
    /\ IF Break(any_button_clicked, iteration)
       THEN /\ pc' = "Converged"
            /\ UNCHANGED <<iteration, productive_rounds>>
       ELSE /\ pc' = "RoundStart"
            /\ iteration' = iteration + 1
            /\ productive_rounds' = productive_rounds + 1
    /\ UNCHANGED <<cleanups, logs, fetched, enrichVars, storeVars, clicks_left, clicks_init, clicks_ok, outcome,
                   DRIVER_RESTART_INTERVAL, CONTINUE_BUTTONS_XPATH, any_button_clicked,
                   button, retry_count, unclickable_buttons, seen_api_request_ids,
                   perf_log>>

\* "except KeyboardInterrupt" of run: the user interrupts the loop
\* (during the time.sleep between two iterations)
KeyboardInterrupt ==
    /\ pc = "RoundStart"
    /\ pc' = "Interrupted"
    /\ UNCHANGED <<cleanups, logs, fetched, enrichVars, storeVars, clicks_left, clicks_init, clicks_ok, productive_rounds,
                   outcome, DRIVER_RESTART_INTERVAL, CONTINUE_BUTTONS_XPATH, iteration,
                   any_button_clicked, button, retry_count, unclickable_buttons,
                   seen_api_request_ids, perf_log>>

\* the extraction step while the browser is unreachable: get_log raises in
\* _parse_performance_logs, whose "except Exception" logs it and returns no
\* rows; the get_log of _clear_performance_logs either fails as well or
\* succeeds and discards the buffered events
ExtractFails(drained) ==
    /\ pc = "Extract"
    /\ perf_log' = IF drained THEN <<>> ELSE perf_log
    /\ outcome' = [outcome EXCEPT !.kind = "log_fault", !.button = 0, !.retry_count = 0]
    /\ pc' = "Check"
    /\ UNCHANGED <<cleanups, logs, fetched, enrichVars, storeVars, clicks_left, clicks_init, clicks_ok,
                   productive_rounds, DRIVER_RESTART_INTERVAL, CONTINUE_BUTTONS_XPATH,
                   iteration, any_button_clicked, button, retry_count,
                   unclickable_buttons, seen_api_request_ids>>

\* the browser reports a Network.responseReceived event of a response it has
\* reported before (the same requestId)
ReplayResponse(id) ==
    /\ pc = "Click"
    /\ id \in 1..clicks_ok
    /\ Len(perf_log) < MaxLog
    /\ perf_log' = Append(perf_log, id)
    /\ UNCHANGED <<cleanups, logs, fetched, enrichVars, storeVars, pageVars, pc, DRIVER_RESTART_INTERVAL,
                   CONTINUE_BUTTONS_XPATH, iteration, any_button_clicked, button,
                   retry_count, unclickable_buttons, seen_api_request_ids>>

\* the ways run ends: the break of the loop, sys.exit(1) after a fatal
\* fault, "except KeyboardInterrupt" and "except Exception"
ExitStates == {"Converged", "Aborted", "Interrupted", "Failed"}

\* cleanup(): print the summary, close the store, quit the driver. The
\* finally clause of run calls it on every way out; the handler of a fatal
\* fault calls it before sys.exit(1), whose SystemExit then passes the
\* finally clause as well
Cleanup ==
    /\ pc \in ExitStates
    /\ cleanups < (IF pc = "Aborted" THEN 2 ELSE 1)
    /\ cleanups' = cleanups + 1
    /\ UNCHANGED <<logs, fetched, enrichVars, storeVars, pageVars, pc, DRIVER_RESTART_INTERVAL,
                   CONTINUE_BUTTONS_XPATH, iteration, any_button_clicked, button,
                   retry_count, unclickable_buttons, seen_api_request_ids, perf_log>>

----------------------------------------------------------------------------
(* NHTSAEnricher.enrich_database *)

MAX_BATCH_SIZE == MaxBatchSize

UpperCase ==
    <<"A", "B", "C", "D", "E", "F", "G", "H", "I", "J", "K", "L", "M",
      "N", "O", "P", "Q", "R", "S", "T", "U", "V", "W", "X", "Y", "Z">>
LowerCase ==
    <<"a", "b", "c", "d", "e", "f", "g", "h", "i", "j", "k", "l", "m",
      "n", "o", "p", "q", "r", "s", "t", "u", "v", "w", "x", "y", "z">>

\* str.lower
LowerChar(c) ==
    IF \E i \in 1..Len(UpperCase) : UpperCase[i] = c
    THEN LowerCase[CHOOSE i \in 1..Len(UpperCase) : UpperCase[i] = c]
    ELSE c
Lower(str) == [i \in 1..Len(str) |-> LowerChar(str[i])]

\* str.strip
RECURSIVE LStrip(_)
LStrip(str) == IF str # <<>> /\ Head(str) = " " THEN LStrip(Tail(str)) ELSE str
RECURSIVE RStrip(_)
RStrip(str) ==
    IF str # <<>> /\ str[Len(str)] = " "
    THEN RStrip(SubSeq(str, 1, Len(str) - 1))
    ELSE str
Strip(str) == RStrip(LStrip(str))

\* sub in str
Contains(str, sub) ==
    \E i \in 1..(Len(str) - Len(sub) + 1) : SubSeq(str, i, i + Len(sub) - 1) = sub

_is_valid_vin(vin) ==
    IF vin = None THEN FALSE
    ELSE LET vin_str == Strip(vin) IN
         IF vin_str = <<>> \/ Len(vin_str) < 3 THEN FALSE
         ELSE IF Contains(vin_str, <<"*">>)
                 \/ Contains(Lower(vin_str), <<"i", "n", "v", "a", "l", "i", "d">>)
         THEN FALSE
         ELSE TRUE

\* a payload built without the validity filter
AllVins(vins) == [i \in 1..Len(vins) |-> Strip(vins[i])]

\* valid_vins of decode_vins_batch
ValidVins(vins) == [i \in 1..Len(SelectSeq(vins, _is_valid_vin)) |->
                        Strip(SelectSeq(vins, _is_valid_vin)[i])]

Range(seq) == {seq[i] : i \in 1..Len(seq)}

\* the order in which the store answers SELECT DISTINCT l.vin: the order of
\* the primary-key index of listings
VinOrder == <<VMasked, VShort, VGood1, VGood2>>

\* the list get_vins_for_enrichment returns
BacklogList == SelectSeq(VinOrder, LAMBDA v : v \in get_vins_for_enrichment)

Min(a, b) == IF a <= b THEN a ELSE b

\* slices one vin longer than the step between them
BatchesOneLonger(vins) ==
    [b \in 1..((Len(vins) + MAX_BATCH_SIZE - 1) \div MAX_BATCH_SIZE) |->
        SubSeq(vins, (b - 1) * MAX_BATCH_SIZE + 1, Min(b * MAX_BATCH_SIZE + 1, Len(vins)))]

\* batches = [vins_to_process[i:i + MAX_BATCH_SIZE] for i in range(0, len, MAX_BATCH_SIZE)]
Batches(vins) ==
    [b \in 1..((Len(vins) + MAX_BATCH_SIZE - 1) \div MAX_BATCH_SIZE) |->
        SubSeq(vins, (b - 1) * MAX_BATCH_SIZE + 1, Min(b * MAX_BATCH_SIZE, Len(vins)))]

\* what the primary decode service says of one vin
ResultKinds == {"resolved", "unresolved"}

\* one entry of api_response["Results"]
DecodedResult(vin, kind) ==
    [VIN |-> vin, Make |-> IF kind = "resolved" THEN "ACURA" ELSE "",
     Model |-> "RDX", ModelYear |-> "2013"]

\* the answers of the primary decode service to a request for vins: None, or
\* results for some of the vins asked for
DecodeResponses(vins) ==
    {<<>>} \cup
    UNION {{[i \in 1..Len(SelectSeq(vins, LAMBDA v : v \in S)) |->
                DecodedResult(SelectSeq(vins, LAMBDA v : v \in S)[i],
                              kinds[SelectSeq(vins, LAMBDA v : v \in S)[i]])]
            : kinds \in [S -> ResultKinds]}
           : S \in SUBSET Range(vins) \ {{}}}

\* decode_vins_batch: no request and None when no vin of the batch is valid
decode_vins_batch(vins, response) ==
    IF ValidVins(vins) = <<>> THEN <<>> ELSE response

extract_specs_from_results(result) == {<<"nhtsa_Make", result.Make>>}

\* mmy_key = f"{model_year}|{make}|{model}"
MmyKey(result) == <<result.ModelYear, result.Make, result.Model>>

HasMmy(result) ==
    TruthyStr(result.Make) /\ TruthyStr(result.Model) /\ TruthyStr(result.ModelYear)

\* a cache read that never finds an entry
CacheGetNothing(cache, key) == [hit |-> FALSE, data |-> {}]

\* dict.get(key): a hit with the stored map, or None
CacheGet(cache, key) ==
    IF key \in DOMAIN cache THEN [hit |-> TRUE, data |-> cache[key]]
    ELSE [hit |-> FALSE, data |-> {}]

\* a cache that keeps only the results that carry fields
CachePutResults(cache, key, value) ==
    IF value = {} THEN cache
    ELSE [k \in DOMAIN cache \cup {key} |-> IF k = key THEN value ELSE cache[k]]

\* cache[key] = value
CachePut(cache, key, value) ==
    [k \in DOMAIN cache \cup {key} |-> IF k = key THEN value ELSE cache[k]]

\* dict.update
Update(specs, data) == {p \in specs : p[1] \notin Columns(data)} \cup data

\* what a lookup of an auxiliary service yields: None (a fault the lookup
\* caught, or nothing found), data, or a payload with an entry that
\* extract_*_data cannot read (an entry that is no dict, a null count)
AuxAnswers == {"None", "data", "malformed"}

extract_ratings_data(answer) ==
    IF answer = "data" THEN {<<"nhtsa_overall_rating", "5">>} ELSE {}
extract_recalls_data(answer) ==
    IF answer = "data" THEN {<<"nhtsa_total_recalls", "1">>} ELSE {}
extract_complaints_data(answer) ==
    IF answer = "data" THEN {<<"nhtsa_total_complaints", "2">>} ELSE {}

Miss == [hit |-> FALSE, data |-> {}]

\* a worker thread that runs no process_batch call; gate is the thread's
\* position in _apply_rate_limit ("out", "in" the with block, "passed") and
\* wake the time its time.sleep call ends
IdleWorker ==
    [pc |-> "idle", batch |-> 0, results |-> <<>>, batch_specs |-> <<>>,
     specs |-> {}, cached_safety |-> Miss, cached_recalls |-> Miss,
     cached_complaints |-> Miss, gate |-> "out", wake |-> 0]

\* NHTSAEnricher.__init__ with its rate_limit_delay and max_workers arguments;
\* the clock reads no less than rate_limit_delay: time.time() counts from 1970
InitEnricher(delay, n) ==
    /\ epc = "Idle"
    /\ vins_to_process = <<>>
    /\ batches = <<>>
    /\ submitted = 0
    /\ workers = [w \in Threads |-> IdleWorker]
    /\ cache_safety = <<>>
    /\ cache_recalls = <<>>
    /\ cache_complaints = <<>>
    /\ total_enriched = 0
    /\ processed_count = 0
    /\ store_calls = EmptyBag
    /\ finished = {}
    /\ rate_limit_delay = delay
    /\ max_workers = n
    /\ last_request_time = 0
    /\ cache_lock = 0
    /\ now = delay
    /\ calls = EmptyBag

\* enrich_database up to the executor: the backlog, the early return, the batches
EnrichDatabase ==
    /\ epc = "Idle"
    /\ vins_to_process' = BacklogList
    /\ IF BacklogList = <<>>
       THEN epc' = "Returned" /\ UNCHANGED batches
       ELSE epc' = "Running" /\ batches' = Batches(BacklogList)
    /\ UNCHANGED <<submitted, workers, cacheVars, countVars, gateVars, configVars, calls>>
    /\ UNCHANGED <<storeVars, driverVars, pageVars>>

\* executor.map: a free thread of the max_workers threads of the pool starts
\* process_batch on the next batch
ProcessBatch(w) ==
    /\ epc = "Running"
    /\ w <= max_workers
    /\ workers[w].pc = "idle"
    /\ submitted < Len(batches)
    /\ submitted' = submitted + 1
    /\ workers' = [workers EXCEPT ![w] = [IdleWorker EXCEPT !.pc = "decode",
                                                            !.batch = submitted + 1]]
    /\ UNCHANGED <<epc, vins_to_process, batches, cacheVars, countVars, gateVars,
                   configVars, calls>>
    /\ UNCHANGED <<storeVars, driverVars, pageVars>>

\* the outbound call the worker is about to make: the primary decode, or the
\* auxiliary lookup whose cache read missed
AtCall(w) ==
    \/ workers[w].pc = "decode"
    \/ workers[w].pc = "safety" /\ ~workers[w].cached_safety.hit
    \/ workers[w].pc = "recalls" /\ ~workers[w].cached_recalls.hit
    \/ workers[w].pc = "complaints" /\ ~workers[w].cached_complaints.hit

\* _apply_rate_limit up to time.sleep: the thread takes cache_lock and
\* computes elapsed and the length of its sleep
ApplyRateLimitEnter(w) ==
    /\ AtCall(w)
    /\ workers[w].gate = "out"
    /\ cache_lock = 0
    /\ cache_lock' = w
    /\ LET elapsed == now - last_request_time IN
       workers' = [workers EXCEPT
                     ![w].gate = "in",
                     ![w].wake = IF elapsed < rate_limit_delay
                                 THEN now + (rate_limit_delay - elapsed)
                                 ELSE now]
    /\ UNCHANGED <<poolVars, cacheVars, countVars, configVars, last_request_time, now,
                   calls>>
    /\ UNCHANGED <<storeVars, driverVars, pageVars>>

\* a thread that leaves _apply_rate_limit and keeps cache_lock
ApplyRateLimitKeepLock(w) == w

\* the lock after the with block of _apply_rate_limit: released
ApplyRateLimitRelease(w) == 0

\* a sleep that returns at once
SleepReturnsAtOnce(w) == TRUE

\* time.sleep(self.rate_limit_delay - elapsed) has returned: no earlier than
\* asked
SleepReturned(w) == now >= workers[w].wake

\* the rest of _apply_rate_limit: after the sleep,
\* self.last_request_time = time.time(); the with block ends
ApplyRateLimitLeave(w) ==
    /\ workers[w].gate = "in"
    /\ cache_lock = w
    /\ SleepReturned(w)
    /\ last_request_time' = now
    /\ cache_lock' = ApplyRateLimitRelease(w)
    /\ workers' = [workers EXCEPT ![w].gate = "passed"]
    /\ UNCHANGED <<poolVars, cacheVars, countVars, configVars, now, calls>>
    /\ UNCHANGED <<storeVars, driverVars, pageVars>>

\* time passes
Tick ==
    /\ now < MaxClock
    /\ now' = now + 1
    /\ UNCHANGED <<poolVars, workers, cacheVars, countVars, configVars,
                   last_request_time, cache_lock, calls>>
    /\ UNCHANGED <<storeVars, driverVars, pageVars>>

\* an exception leaves process_batch: the thread is free again, the batch is
\* over, and the exception stays in the future executor.map never reads
Raise(w) ==
    /\ workers' = [workers EXCEPT ![w] = IdleWorker]
    /\ finished' = finished \cup {workers[w].batch}

\* the record of one request sent to a service
Called(service, key) == calls (+) SetToBag({<<service, key>>})

\* api_response = self.decode_vins_batch(batch_vins): after the gate, None
\* without a request when no vin of the batch is valid, else the request
Decode(w, response) ==
    /\ workers[w].pc = "decode"
    /\ workers[w].gate = "passed"
    /\ LET api_response == decode_vins_batch(batches[workers[w].batch], response) IN
       workers' = [workers EXCEPT ![w].results = api_response,
                                  ![w].gate = "out",
                                  ![w].pc = IF api_response # <<>> THEN "result"
                                            ELSE "count"]
    /\ calls' = IF ValidVins(batches[workers[w].batch]) = <<>> THEN calls
                ELSE Called("decode", workers[w].batch)
    /\ UNCHANGED <<poolVars, cacheVars, countVars, gateVars, configVars>>
    /\ UNCHANGED <<storeVars, driverVars, pageVars>>

\* a loop that ends after the first vin it has added to batch_specs
LoopEndedAfterOneVin(worker) == worker.results = <<>> \/ DOMAIN worker.batch_specs # {}

\* "for result in api_response['Results']" has no result left
LoopEnded(worker) == worker.results = <<>>

\* the head of "for result in api_response['Results']": the specs of the
\* result and, for a resolved make, model and year, the three cache reads
\* under cache_lock
NextResult(w) ==
    /\ workers[w].pc = "result"
    /\ IF LoopEnded(workers[w])
       THEN workers' = [workers EXCEPT ![w].pc = "store"]
       ELSE LET result == Head(workers[w].results)
                specs == extract_specs_from_results(result)
            IN  IF HasMmy(result)
                THEN /\ cache_lock = 0
                     /\ workers' =
                          [workers EXCEPT
                             ![w].specs = specs,
                             ![w].cached_safety = CacheGet(cache_safety, MmyKey(result)),
                             ![w].cached_recalls = CacheGet(cache_recalls, MmyKey(result)),
                             ![w].cached_complaints =
                                 CacheGet(cache_complaints, MmyKey(result)),
                             ![w].pc = "safety"]
                ELSE workers' =
                       [workers EXCEPT
                          ![w].batch_specs = CachePut(@, result.VIN, specs),
                          ![w].results = Tail(@)]
    /\ UNCHANGED <<poolVars, cacheVars, countVars, gateVars, configVars, calls>>
    /\ UNCHANGED <<storeVars, driverVars, pageVars>>

\* "if cached_safety is None": get_safety_ratings after the gate, and
\* extract_ratings_data, which raises on a payload it cannot read; with a
\* cached value, specs.update(cached_safety)
SafetyRatings(w, answer) ==
    /\ workers[w].pc = "safety"
    /\ IF workers[w].cached_safety.hit
       THEN /\ answer = "None"
            /\ workers' = [workers EXCEPT ![w].specs = Update(@, workers[w].cached_safety.data),
                                          ![w].pc = "recalls"]
            /\ UNCHANGED <<calls, finished>>
       ELSE /\ workers[w].gate = "passed"
            /\ calls' = Called("safety", MmyKey(Head(workers[w].results)))
            /\ IF answer = "malformed"
               THEN Raise(w)
               ELSE /\ workers' = [workers EXCEPT
                                     ![w].cached_safety.data = extract_ratings_data(answer),
                                     ![w].gate = "out",
                                     ![w].pc = "safety_write"]
                    /\ UNCHANGED finished
    /\ UNCHANGED <<poolVars, cacheVars, total_enriched, processed_count, store_calls, gateVars,
                   configVars>>
    /\ UNCHANGED <<storeVars, driverVars, pageVars>>

\* a thread that writes the cache without taking cache_lock
WithoutLock(w) == TRUE

\* "with self.cache_lock:" around one statement: the thread takes the free lock
WithCacheLock(w) == cache_lock = 0

\* with self.cache_lock: self.cache_safety[mmy_key] = cached_safety; then
\* specs.update(cached_safety)
CacheSafety(w) ==
    /\ workers[w].pc = "safety_write"
    /\ WithCacheLock(w)
    /\ cache_safety' = CachePut(cache_safety, MmyKey(Head(workers[w].results)),
                                workers[w].cached_safety.data)
    /\ workers' = [workers EXCEPT ![w].specs = Update(@, workers[w].cached_safety.data),
                                  ![w].pc = "recalls"]
    /\ UNCHANGED <<poolVars, cache_recalls, cache_complaints, countVars, gateVars,
                   configVars, calls>>
    /\ UNCHANGED <<storeVars, driverVars, pageVars>>

\* "if cached_recalls is None": get_recalls after the gate, and
\* extract_recalls_data; with a cached value, specs.update(cached_recalls)
Recalls(w, answer) ==
    /\ workers[w].pc = "recalls"
    /\ IF workers[w].cached_recalls.hit
       THEN /\ answer = "None"
            /\ workers' = [workers EXCEPT ![w].specs = Update(@, workers[w].cached_recalls.data),
                                          ![w].pc = "complaints"]
            /\ UNCHANGED <<calls, finished>>
       ELSE /\ workers[w].gate = "passed"
            /\ calls' = Called("recalls", MmyKey(Head(workers[w].results)))
            /\ IF answer = "malformed"
               THEN Raise(w)
               ELSE /\ workers' = [workers EXCEPT
                                     ![w].cached_recalls.data = extract_recalls_data(answer),
                                     ![w].gate = "out",
                                     ![w].pc = "recalls_write"]
                    /\ UNCHANGED finished
    /\ UNCHANGED <<poolVars, cacheVars, total_enriched, processed_count, store_calls, gateVars,
                   configVars>>
    /\ UNCHANGED <<storeVars, driverVars, pageVars>>

\* with self.cache_lock: self.cache_recalls[mmy_key] = cached_recalls; then
\* specs.update(cached_recalls)
CacheRecalls(w) ==
    /\ workers[w].pc = "recalls_write"
    /\ WithCacheLock(w)
    /\ cache_recalls' = CachePut(cache_recalls, MmyKey(Head(workers[w].results)),
                                 workers[w].cached_recalls.data)
    /\ workers' = [workers EXCEPT ![w].specs = Update(@, workers[w].cached_recalls.data),
                                  ![w].pc = "complaints"]
    /\ UNCHANGED <<poolVars, cache_safety, cache_complaints, countVars, gateVars,
                   configVars, calls>>
    /\ UNCHANGED <<storeVars, driverVars, pageVars>>

\* specs.update(cached_complaints) and batch_specs[vin] = specs: the end of
\* the loop body for one result
AddToBatch(worker, cached) ==
    [worker EXCEPT
       !.batch_specs = CachePut(@, Head(worker.results).VIN, Update(worker.specs, cached)),
       !.specs = {},
       !.cached_safety = Miss,
       !.cached_recalls = Miss,
       !.cached_complaints = Miss,
       !.results = Tail(@),
       !.pc = "result"]

\* "if cached_complaints is None": get_complaints after the gate, and
\* extract_complaints_data; with a cached value, specs.update(cached_complaints)
\* and batch_specs[vin] = specs
Complaints(w, answer) ==
    /\ workers[w].pc = "complaints"
    /\ IF workers[w].cached_complaints.hit
       THEN /\ answer = "None"
            /\ workers' = [workers EXCEPT
                             ![w] = AddToBatch(@, workers[w].cached_complaints.data)]
            /\ UNCHANGED <<calls, finished>>
       ELSE /\ workers[w].gate = "passed"
            /\ calls' = Called("complaints", MmyKey(Head(workers[w].results)))
            /\ IF answer = "malformed"
               THEN Raise(w)
               ELSE /\ workers' = [workers EXCEPT
                                     ![w].cached_complaints.data =
                                         extract_complaints_data(answer),
                                     ![w].gate = "out",
                                     ![w].pc = "complaints_write"]
                    /\ UNCHANGED finished
    /\ UNCHANGED <<poolVars, cacheVars, total_enriched, processed_count, store_calls, gateVars,
                   configVars>>
    /\ UNCHANGED <<storeVars, driverVars, pageVars>>

\* with self.cache_lock: self.cache_complaints[mmy_key] = cached_complaints;
\* then specs.update(cached_complaints) and batch_specs[vin] = specs
CacheComplaints(w) ==
    /\ workers[w].pc = "complaints_write"
    /\ WithCacheLock(w)
    /\ cache_complaints' = CachePut(cache_complaints, MmyKey(Head(workers[w].results)),
                                    workers[w].cached_complaints.data)
    /\ workers' = [workers EXCEPT
                     ![w] = AddToBatch(@, workers[w].cached_complaints.data)]
    /\ UNCHANGED <<poolVars, cache_safety, cache_recalls, countVars, gateVars,
                   configVars, calls>>
    /\ UNCHANGED <<storeVars, driverVars, pageVars>>

\* the record of the call self.db.insert_nhtsa_enrichment_batch(batch_specs)
StoreCall(worker) == <<worker.batch, Cardinality(DOMAIN worker.batch_specs)>>

\* "if batch_specs: self.db.insert_nhtsa_enrichment_batch(batch_specs)" and,
\* under cache_lock, total_enriched += len(batch_specs). The connection
\* refuses a thread other than its own with sqlite3.ProgrammingError, which
\* leaves process_batch
StoreBatch(w) ==
    /\ workers[w].pc = "store"
    /\ IF DOMAIN workers[w].batch_specs = {}
       THEN /\ workers' = [workers EXCEPT ![w].pc = "count"]
            /\ UNCHANGED <<storeVars, total_enriched, finished, store_calls>>
       ELSE /\ store_calls' = store_calls (+) SetToBag({StoreCall(workers[w])})
            /\ IF SameThread(w)
               THEN /\ cache_lock = 0
                    /\ InsertNhtsaEnrichmentBatch(workers[w].batch_specs)
                    /\ total_enriched' =
                          total_enriched + Cardinality(DOMAIN workers[w].batch_specs)
                    /\ workers' = [workers EXCEPT ![w].pc = "count"]
                    /\ UNCHANGED finished
               ELSE /\ Raise(w)
                    /\ UNCHANGED <<storeVars, total_enriched>>
    /\ UNCHANGED <<poolVars, cacheVars, processed_count, gateVars, configVars, calls>>
    /\ UNCHANGED <<driverVars, pageVars>>

\* with self.cache_lock: processed_count += len(batch_vins); then
\* return len(batch_specs)
CountBatch(w) ==
    /\ workers[w].pc = "count"
    /\ cache_lock = 0
    /\ processed_count' = processed_count + Len(batches[workers[w].batch])
    /\ finished' = finished \cup {workers[w].batch}
    /\ workers' = [workers EXCEPT ![w] = IdleWorker]
    /\ UNCHANGED <<poolVars, cacheVars, total_enriched, store_calls, gateVars, configVars,
                   calls>>
    /\ UNCHANGED <<storeVars, driverVars, pageVars>>

\* an executor whose with block ends once every batch is handed to a thread
ShutdownNoWait == submitted = Len(batches)

\* the with block of the executor ends: shutdown(wait=True) returns when
\* every batch was handed to a thread and every thread is free again
Shutdown ==
    /\ submitted = Len(batches)
    /\ \A w \in Threads : workers[w].pc = "idle"

\* the end of the with block (executor.shutdown(wait=True)) and
\* return total_enriched
ReturnTotalEnriched ==
    /\ epc = "Running"
    /\ Shutdown
    /\ epc' = "Returned"
    /\ UNCHANGED <<vins_to_process, batches, submitted, workers, cacheVars, countVars,
                   gateVars, configVars, calls>>
    /\ UNCHANGED <<storeVars, driverVars, pageVars>>

----------------------------------------------------------------------------
(* Specifications *)

\* the store on its own: any caller, any order of calls
Init == InitStore /\ InitScraper(0, 1, [b \in 1..1 |-> 0]) /\ InitEnricher(0, MaxWorkers)

StoreInsertRows(rows) == InsertRows(rows) /\ UNCHANGED <<driverVars, pageVars, enrichVars>>

StoreInsertNhtsaEnrichmentBatch(dict) ==
    InsertNhtsaEnrichmentBatch(dict) /\ UNCHANGED <<driverVars, pageVars, enrichVars>>

StoreInsertNhtsaEnrichment(vin, data) ==
    InsertNhtsaEnrichment(vin, data) /\ UNCHANGED <<driverVars, pageVars, enrichVars>>

Next ==
    \/ \E rows \in SeqsUpTo(PlainRows, MaxRows) : StoreInsertRows(rows)
    \/ \E dict \in EnrichDicts : StoreInsertNhtsaEnrichmentBatch(dict)
    \/ \E vin \in EnrichVins, data \in FieldMaps : StoreInsertNhtsaEnrichment(vin, data)

Spec == Init /\ [][Next]_vars

\* the store under repeated extraction of one listing with nested history
NextHistory == \E row \in HistoryRows : StoreInsertRows(<<row>>)

SpecHistory == Init /\ [][NextHistory]_vars

\* the store under batches whose rows fail in different ways
NextFaulty == \E rows \in SeqsUpTo(FaultyRows, MaxRows) : StoreInsertRows(rows)

SpecFaulty == Init /\ [][NextFaulty]_vars

\* the store under snapshots of several dates, history and enrichment writes
NextBatch ==
    \/ \E rows \in SeqsUpTo(DatedRows, MaxRows) : StoreInsertRows(rows)
    \/ \E dict \in EnrichDicts : StoreInsertNhtsaEnrichmentBatch(dict)
    \/ \E vin \in EnrichVins, data \in FieldMaps : StoreInsertNhtsaEnrichment(vin, data)

SpecBatch == Init /\ [][NextBatch]_vars

\* the batches the callers of the shared store write: snapshots of one vin,
\* with and without a row whose insert raises
CallerRows ==
    {<<Row(VGood1, "2024-01-01", "p1", <<>>, <<>>)>>,
     <<Row(VGood1, "2024-01-02", "p2", <<>>, <<>>),
       Row(VGood2, "2024-01-01", TooLarge, <<>>, <<>>)>>}

\* the batch_specs the enrichment workers hand over
CallerSpecs ==
    {[vin \in {VGood1} |-> {<<"nhtsa_Make", "m1">>}],
     [vin \in {VGood2} |-> {<<"nhtsa_Make", "m2">>}]}

\* one CarDatabase shared by the thread that opened it, which also writes
\* snapshots, and the worker threads, their calls interleaved step by step
NextCallers ==
    \/ \E rows \in CallerRows :
           /\ BeginCall(ConnectionThread, "insert_rows", rows)
           /\ UNCHANGED <<driverVars, pageVars, enrichVars>>
    \/ \E thread \in Callers, dict \in CallerSpecs :
           /\ BeginCall(thread, "insert_nhtsa_enrichment_batch", dict)
           /\ UNCHANGED <<driverVars, pageVars, enrichVars>>
    \/ \E thread \in Callers :
           /\ EndCall(thread)
           /\ UNCHANGED <<driverVars, pageVars, enrichVars>>

SpecCallers == Init /\ [][NextCallers]_vars

\* the start of a run against a page with finitely many clicks
InitRun(maxButtons, maxClicks) ==
    /\ InitStore
    /\ InitEnricher(0, MaxWorkers)
    /\ \E interval \in RestartIntervals, n \in 1..maxButtons :
           \E clicks \in [1..n -> 0..maxClicks] : InitScraper(interval, n, clicks)

\* one run of the scraper against a page that may fail in every way
InitDriver == InitRun(MaxFaultyButtons, MaxFaultyClicks)

NextDriver ==
    \/ StartRun
    \/ BeginRound
    \/ RestartFails
    \/ \E kind \in AttemptKinds : ClickAttempt(kind)
    \/ Extract
    \/ CheckContinue
    \/ KeyboardInterrupt
    \/ \E drained \in BOOLEAN : ExtractFails(drained)
    \/ Cleanup

SpecDriver == InitDriver /\ [][NextDriver]_vars

\* one run against a page whose browser may report one of its first MaxLog
\* responses again; the browser stays reachable
NextReplay ==
    \/ StartRun
    \/ BeginRound
    \/ \E kind \in {"clicked", "absent"} : ClickAttempt(kind)
    \/ \E id \in 1..MaxLog : ReplayResponse(id)
    \/ Extract
    \/ CheckContinue
    \/ Cleanup

SpecReplay == InitRun(MaxButtons, MaxClicks) /\ [][NextReplay]_vars

\* one run against a page whose browser may report a response again and may
\* fail to hand over the body of a response, or hand over an empty one
NextBodies ==
    \/ StartRun
    \/ BeginRound
    \/ \E kind \in {"clicked", "absent"} : ClickAttempt(kind)
    \/ \E id \in 1..MaxLog : ReplayResponse(id)
    \/ \E failed \in SUBSET (Range(perf_log) \ seen_api_request_ids) : ExtractWith(failed)
    \/ CheckContinue
    \/ Cleanup

SpecBodies == InitRun(MaxBodyButtons, MaxClicks) /\ [][NextBodies]_vars

\* one run against a simulated page whose controls only report success or
\* absence: no transient fault, no exception, no interrupt
NextSimulated ==
    \/ StartRun
    \/ BeginRound
    \/ \E kind \in {"clicked", "absent"} : ClickAttempt(kind)
    \/ Extract
    \/ CheckContinue
    \/ Cleanup

InitSimulated == InitRun(MaxButtons, MaxClicks)

SpecSimulated == InitSimulated /\ [][NextSimulated]_vars

\* the run is scheduled until it ends
SpecSimulatedFair == SpecSimulated /\ WF_vars(NextSimulated)

\* the vins that have a snapshot when enrich_database is called
BacklogVins == {VMasked, VShort, VGood1, VGood2}

\* a store that holds snapshots and no enrichment
InitBacklog ==
    /\ \E S \in SUBSET BacklogVins :
          /\ Cardinality(S) <= MaxBacklog
          /\ listings = {Row(v, Today, "p1", <<>>, <<>>) : v \in S}
    /\ price_history = EmptyBag
    /\ listing_history = EmptyBag
    /\ nhtsa_enrichment = {}
    /\ inserted_count = 0
    /\ last = [op |-> "init", arg |-> <<>>, backlog |-> {}, replaced |-> {}, raised |-> FALSE]
    /\ InitConnection
    /\ InitScraper(0, 1, [b \in 1..1 |-> 0])

\* the pass runs without rate limit
InitEnrich == InitBacklog /\ \E n \in 1..MaxWorkers : InitEnricher(0, n)

NextEnrich ==
    \/ EnrichDatabase
    \/ \E w \in Threads : ProcessBatch(w)
    \/ \E w \in Threads : ApplyRateLimitEnter(w)
    \/ \E w \in Threads : ApplyRateLimitLeave(w)
    \/ \E w \in Threads :
          /\ workers[w].pc = "decode"
          /\ \E response \in DecodeResponses(ValidVins(batches[workers[w].batch])) :
                 Decode(w, response)
    \/ \E w \in Threads : NextResult(w)
    \/ \E w \in Threads, answer \in AuxAnswers : SafetyRatings(w, answer)
    \/ \E w \in Threads, answer \in AuxAnswers : Recalls(w, answer)
    \/ \E w \in Threads, answer \in AuxAnswers : Complaints(w, answer)
    \/ \E w \in Threads : CacheSafety(w)
    \/ \E w \in Threads : CacheRecalls(w)
    \/ \E w \in Threads : CacheComplaints(w)
    \/ \E w \in Threads : StoreBatch(w)
    \/ \E w \in Threads : CountBatch(w)
    \/ ReturnTotalEnriched

\* one enrich_database call without rate limit
SpecEnrich == InitEnrich /\ [][NextEnrich]_vars

\* the threads of the pass are scheduled: every external call and every store
\* write returns, and a step that can be taken is taken in the end
SpecEnrichFair == SpecEnrich /\ WF_vars(NextEnrich)

\* one enrich_database call with a rate limit, while time passes
InitGate ==
    InitBacklog /\ \E delay \in 1..MaxDelay, n \in 1..MaxWorkers : InitEnricher(delay, n)

NextGate == NextEnrich \/ Tick

SpecGate == InitGate /\ [][NextGate]_vars


----------------------------------------------------------------------------
(* Properties of the store *)

Max(S) == CHOOSE x \in S : \A y \in S : y <= x

\* the listings rows stored under a key
ListingsAt(vin, loaddate) ==
    {r \in listings : r.vin = vin /\ r.loaddate = loaddate}

\* the last row of a rows list that carries the key of rows[i]
LastRowWithKeyOf(rows, i) ==
    rows[Max({j \in 1..Len(rows) : /\ rows[j].vin = rows[i].vin
                                    /\ rows[j].loaddate = rows[i].loaddate})]

\* C1: after insert_rows, every row of the call with a non-empty vin and
\* loaddate has exactly one listings row under its (vin, loaddate), and that
\* row carries the field values of the last write of the key, also when
\* the key was already stored with other values
C1_IdempotentUpsert ==
    last.op = "insert_rows" =>
        \A i \in 1..Len(last.arg) :
            LET row == last.arg[i] IN
            (TruthyVin(row.vin) /\ TruthyStr(row.loaddate)) =>
                /\ Cardinality(ListingsAt(row.vin, row.loaddate)) = 1
                /\ \A r \in ListingsAt(row.vin, row.loaddate) :
                       r.price = LastRowWithKeyOf(last.arg, i).price

\* C1 witness: a second call wrote a key that an earlier call had stored
\* with a different price
C1_Witness ==
    /\ last.op = "insert_rows"
    /\ \E old \in last.replaced : \E r \in ListingsAt(old.vin, old.loaddate) :
           r.price # old.price

\* the vins that have a listings row and no nhtsa_enrichment row
VinsWithoutEnrichment ==
    {l.vin : l \in {k \in listings : \A n \in nhtsa_enrichment : n.vin # k.vin}}

\* C3: get_vins_for_enrichment returns exactly the vins with a listings row
\* and no nhtsa_enrichment row, and right after insert_nhtsa_enrichment_batch
\* was called with a map whose keys cover the backlog it returns nothing
C3_BacklogCorrectness ==
    /\ get_vins_for_enrichment = VinsWithoutEnrichment
    /\ (last.op = "insert_nhtsa_enrichment_batch"
            /\ last.backlog \subseteq DOMAIN last.arg)
        => get_vins_for_enrichment = {}

\* C4: after insert_nhtsa_enrichment or its batch variant, a vin passed with
\* an empty fields map has an nhtsa_enrichment row and is not in the backlog
C4_EmptyFieldsMarkEnriched ==
    last.op \in {"insert_nhtsa_enrichment", "insert_nhtsa_enrichment_batch"} =>
        \A v \in DOMAIN last.arg :
            last.arg[v] = EmptyMap =>
                /\ \E n \in nhtsa_enrichment : n.vin = v
                /\ v \notin get_vins_for_enrichment


\* number of rows of a history table (a bag) that satisfy a predicate
RowCount(tbl, keep(_)) ==
    BagCardinality([r \in {x \in BagToSet(tbl) : keep(x)} |-> tbl[r]])

\* the history entries the last insert_rows call delivered in rows it wrote
DeliveredEntries(field(_)) ==
    IF last.op # "insert_rows" THEN {}
    ELSE UNION {{<<last.arg[i].vin, field(last.arg[i])[j]>> :
                    j \in 1..Len(field(last.arg[i]))} :
                 i \in {k \in 1..Len(last.arg) :
                           /\ TruthyVin(last.arg[k].vin)
                           /\ TruthyStr(last.arg[k].loaddate)}}

PriceHistoryOf(row) == row.priceHistory
ListingHistoryOf(row) == row.listingHistory

\* C2: every (vin, history_date, price) of price_history and every
\* (vin, history_date, price, mileage) of listing_history is stored exactly
\* once, entries without date, price or mileage included, and every entry
\* the last call delivered is stored
C2_HistoryDedup ==
    /\ \A r \in BagToSet(price_history) :
           LET SameKey(x) == /\ x.vin = r.vin
                             /\ x.history_date = r.history_date
                             /\ x.price = r.price
           IN  RowCount(price_history, SameKey) = 1
    /\ \A r \in BagToSet(listing_history) :
           LET SameKey(x) == /\ x.vin = r.vin
                             /\ x.history_date = r.history_date
                             /\ x.price = r.price
                             /\ x.mileage = r.mileage
           IN  RowCount(listing_history, SameKey) = 1
    /\ \A d \in DeliveredEntries(PriceHistoryOf) :
           \E r \in BagToSet(price_history) :
               /\ r.vin = d[1]
               /\ r.history_date = d[2].date
               /\ r.price = d[2].price
    /\ \A d \in DeliveredEntries(ListingHistoryOf) :
           \E r \in BagToSet(listing_history) :
               /\ r.vin = d[1]
               /\ r.history_date = d[2].date
               /\ r.price = d[2].price
               /\ r.mileage = d[2].mileage

----------------------------------------------------------------------------
(* Properties of CarScraper.run *)

\* C6 as claimed: a run against a simulated page whose controls succeed
\* k times in total ends Converged after exactly k productive rounds
C6_ExactlyKProductiveRounds ==
    pc = "Converged" => productive_rounds = clicks_ok

\* C6: a run against a simulated page whose controls succeed k times in
\* total ends Converged, after as many productive rounds as the most
\* clickable sub-source has successes: at most k, at least one when k > 0,
\* and exactly k when there is a single sub-source
C6_AtMostKProductiveRounds ==
    /\ [](pc = "Converged" =>
            /\ productive_rounds =
                   Max({clicks_init[b] : b \in 1..CONTINUE_BUTTONS_XPATH})
            /\ productive_rounds <= clicks_ok
            /\ clicks_ok > 0 => productive_rounds >= 1
            /\ CONTINUE_BUTTONS_XPATH = 1 => productive_rounds = clicks_ok)
    /\ <>(pc = "Converged")

\* C6 witness: a converged run with fewer productive rounds than clicks
C6_Witness ==
    /\ pc = "Converged"
    /\ productive_rounds >= 2
    /\ productive_rounds < clicks_ok

\* every button of the page could be clicked exactly c times
UniformClicks(c) == \A b \in 1..CONTINUE_BUTTONS_XPATH : clicks_init[b] = c

\* C7: when each of the N buttons is clickable exactly c times and then
\* absent, the run that has converged made exactly c productive rounds and
\* holds all N buttons in unclickable_buttons
C7_UniformButtons ==
    \A c \in 0..MaxClicks :
        (pc = "Converged" /\ UniformClicks(c)) =>
            /\ productive_rounds = c
            /\ unclickable_buttons = 1..CONTINUE_BUTTONS_XPATH

\* C7 witness: the run with 2 buttons, each clickable twice, has converged
C7_Witness ==
    /\ pc = "Converged"
    /\ CONTINUE_BUTTONS_XPATH = 2
    /\ UniformClicks(2)

\* C8 as claimed: in every configuration unclickable_buttons only grows and
\* no click attempt is made on a button in it
C8_ExhaustedOnlyGrows ==
    /\ [][unclickable_buttons \subseteq unclickable_buttons']_vars
    /\ [](pc = "Click" => button \notin unclickable_buttons)

\* C8: unclickable_buttons only grows except when restart_driver, which
\* runs only with DRIVER_RESTART_INTERVAL > 0, empties it at the start of a
\* round; no click attempt is made on a button while it is in the set
C8_ExhaustedGrowsBetweenRestarts ==
    /\ [][\/ unclickable_buttons \subseteq unclickable_buttons'
          \/ /\ DRIVER_RESTART_INTERVAL > 0
             /\ pc = "RoundStart"
             /\ RestartDue
             /\ unclickable_buttons' = {}]_vars
    /\ [](pc = "Click" => button \notin unclickable_buttons)

\* C8 witness: with restarts disabled, a later round skipped the exhausted
\* first button (the last attempt was on the second one) and is about to
\* attempt the second button
C8_Witness ==
    /\ DRIVER_RESTART_INTERVAL = 0
    /\ iteration >= 2
    /\ pc = "Click"
    /\ button = 2
    /\ 1 \in unclickable_buttons
    /\ outcome.button = 2

\* C9: a transient failure of a click attempt leaves the button out of
\* unclickable_buttons and, while attempts remain, is followed by another
\* attempt on the same button in the same round; an absent button is put
\* into unclickable_buttons at once
C9_TransientFailureRetried ==
    /\ outcome.kind = "transient" =>
          /\ outcome.button \notin unclickable_buttons
          /\ outcome.retry_count + 1 < MAX_RETRIES =>
                (pc = "Click" /\ button = outcome.button)
    /\ (outcome.kind = "absent" /\ pc \in {"Click", "Extract", "Check"}) =>
          outcome.button \in unclickable_buttons

\* C10: when the MAX_RETRIES-th attempt on a button in a round ended in a
\* retried fault, the button is in unclickable_buttons
C10_RetriesEscalate ==
    (outcome.kind = "retried" /\ outcome.retry_count >= MAX_RETRIES) =>
        outcome.button \in unclickable_buttons

ConnectivityFaults == {"fatal", "disconnected", "log_fault"}

\* C12: once a connectivity fault of the browser has surfaced in a round
\* (in _handle_ribbon, in _click_button or while the captured responses are
\* read), the run is in Aborted; the fault was not counted as a retry and
\* did not put the button into unclickable_buttons
C12_ConnectivityFaultFatal ==
    outcome.kind \in ConnectivityFaults =>
        /\ pc = "Aborted"
        /\ outcome.retry_count = retry_count
        /\ outcome.button \notin unclickable_buttons

\* the number of rows of a rows list that come from the response of a request
RowsOfRequest(rows, id) ==
    Cardinality({i \in 1..Len(rows) : rows[i].vin = VinOfResponse(id)})

\* C14: seen_api_request_ids only grows, restarts included; the rows handed
\* to the store by an extraction are the rows of the request ids that enter
\* seen_api_request_ids in that extraction, each response's rows once, also
\* when the log holds an id twice or holds an id of an earlier extraction;
\* nothing is stored when no id is new
C14_RequestIdOnce ==
    /\ [][seen_api_request_ids \subseteq seen_api_request_ids']_vars
    /\ [][(seen_api_request_ids' # seen_api_request_ids) =>
            (/\ last'.op = "insert_rows"
             /\ \A id \in seen_api_request_ids : RowsOfRequest(last'.arg, id) = 0
             /\ \A id \in seen_api_request_ids' \ seen_api_request_ids :
                    RowsOfRequest(last'.arg, id) = 1)]_vars
    /\ [][(seen_api_request_ids' = seen_api_request_ids) => UNCHANGED storeVars]_vars

\* an extraction has just read a log that held a new response and a response
\* of an earlier extraction, or one response twice
C14_Witness ==
    /\ pc = "Check"
    /\ logs = <<2, 1>>
    /\ last.op = "insert_rows"
    /\ last.arg = ExtractRowsFromApiData(2)
    /\ seen_api_request_ids = {1, 2}
    /\ iteration >= 2

\* the process has left run: the exit path was taken and its cleanup calls
\* have run
Exited == pc \in ExitStates /\ cleanups = (IF pc = "Aborted" THEN 2 ELSE 1)

\* the vins of the rows the page delivered in the responses to the
\* successful clicks of the run
DeliveredVins == {VinOfResponse(id) : id \in 1..clicks_ok}

\* C13: when the run has exited on any path (convergence, fatal fault,
\* unhandled exception, interrupt) and cleanup has run, every row delivered
\* up to then, the rows of the clicks that succeeded earlier in the round of
\* the fault included, is in the store
C13_FlushThenExit ==
    Exited => \A vin \in DeliveredVins : \E r \in listings : r.vin = vin

----------------------------------------------------------------------------
(* Properties of NHTSAEnricher.enrich_database *)

\* the vins of the batches whose process_batch call has ended
ProcessedVins == UNION {Range(batches[b]) : b \in finished}

\* C5: once enrich_database has processed a batch, every vin of the batch
\* (invalid ones, ones the primary response leaves out and ones whose primary
\* request failed included) has a row in nhtsa_enrichment, and when the pass
\* has returned no vin is left in the backlog
C5_BatchMarkedEnriched ==
    /\ \A vin \in ProcessedVins : \E n \in nhtsa_enrichment : n.vin = vin
    /\ epc = "Returned" => get_vins_for_enrichment = {}

\* the three auxiliary services
AuxServices == {"safety", "recalls", "complaints"}

\* C15: during one enrich_database pass each auxiliary service is called for
\* one (year, make, model) composite at most max_workers times, so at most
\* once with a single worker
C15_CacheBound ==
    \A call \in BagToSet(calls) :
        call[1] \in AuxServices => CopiesIn(call, calls) <= max_workers

\* the shared cache of an auxiliary service
CacheOf(service) ==
    CASE service = "safety" -> cache_safety
      [] service = "recalls" -> cache_recalls
      [] service = "complaints" -> cache_complaints

\* what a worker's cache read under cache_lock found for the service
CachedOf(worker, service) ==
    CASE service = "safety" -> worker.cached_safety
      [] service = "recalls" -> worker.cached_recalls
      [] service = "complaints" -> worker.cached_complaints

\* the step sends a request to the service for the key
Calls(service, key) ==
    CopiesIn(<<service, key>>, calls') > CopiesIn(<<service, key>>, calls)

\* the composite keys of the results of the primary decode service
MmyKeys == {MmyKey(DecodedResult(VGood1, kind)) : kind \in ResultKinds}

\* C16 as stated: at the moment a worker issues a call of an auxiliary
\* service for a composite, the shared cache of the service holds no entry
\* for the composite
C16_NoEntryWhenCalled ==
    [][\A service \in AuxServices, key \in MmyKeys :
          Calls(service, key) => key \notin DOMAIN CacheOf(service)]_vars

\* C16 amended: a call of an auxiliary service for a composite is issued only
\* by a worker whose cache read for the current vin, made under cache_lock
\* before the first of the three lookups, found no entry; another worker may
\* have written the entry since; with a single worker the shared cache holds
\* no entry at the moment of the call
C16_NoEntryWhenRead ==
    [][\A service \in AuxServices, key \in MmyKeys :
          Calls(service, key) =>
              /\ \E w \in Threads :
                    /\ workers[w].pc = service
                    /\ workers'[w] # workers[w]
                    /\ MmyKey(Head(workers[w].results)) = key
                    /\ ~CachedOf(workers[w], service).hit
                    /\ \A v \in Threads \ {w} : workers'[v] = workers[v]
              /\ (max_workers = 1 => key \notin DOMAIN CacheOf(service))]_vars

\* a worker has issued its safety call for a composite after another worker
\* wrote the entry of the composite
C16_Witness ==
    \E w \in Threads :
        /\ workers[w].pc = "safety_write"
        /\ MmyKey(Head(workers[w].results)) \in DOMAIN cache_safety
        /\ CopiesIn(<<"safety", MmyKey(Head(workers[w].results))>>, calls) = 2

\* the step sends a request to a service
SendsRequest == BagCardinality(calls') > BagCardinality(calls)

\* C17: a step that writes cache_safety, cache_recalls or cache_complaints is
\* the with-block of a thread that took the free cache_lock, so no other
\* thread holds the lock during the write; last_request_time is written by
\* the thread that holds cache_lock inside _apply_rate_limit; a thread that
\* holds cache_lock is inside _apply_rate_limit, and the thread that sends a
\* request of the primary or an auxiliary service does not hold cache_lock
C17_MutexDiscipline ==
    /\ [][(cacheVars' # cacheVars) => (cache_lock = 0 /\ cache_lock' = 0)]_vars
    /\ [][(last_request_time' # last_request_time) =>
            (/\ cache_lock \in Threads
             /\ workers[cache_lock].gate = "in"
             /\ workers'[cache_lock].gate = "passed")]_vars
    /\ [](cache_lock # 0 => (cache_lock \in Threads /\ workers[cache_lock].gate = "in"))
    /\ [][SendsRequest =>
            (\A w \in Threads : workers'[w] # workers[w] => cache_lock # w)]_vars

\* a worker has written a cache entry, the clock-stamped gate has been
\* passed after a sleep, and another worker is inside _apply_rate_limit
\* holding cache_lock
C17_Witness ==
    /\ cache_safety # <<>>
    /\ last_request_time > rate_limit_delay
    /\ cache_lock # 0
    /\ workers[cache_lock].wake > now
    /\ \E w \in Threads \ {cache_lock} : workers[w].pc = "recalls_write"

C19_LookupFaultContained ==
    [][SendsRequest =>
          (\A w \in Threads : workers[w].pc # "idle" => workers'[w].pc # "idle")]_vars

\* the results of the primary decode the worker's process_batch call has
\* merged into batch_specs, and those it has not come to
MergedVins(worker) == DOMAIN worker.batch_specs
PendingResults(worker) == Range(worker.results)

\* C20: when a process_batch call ends, every vin the primary decode returned
\* for the batch has a row in nhtsa_enrichment that holds its primary-decode
\* fields, and a vin the call has merged has exactly the fields merged for it:
\* the primary fields and the fields of the auxiliary lookups that resolved
C20_PrimaryFieldsWritten ==
    [][\A w \in Threads :
          (workers[w].pc # "idle" /\ workers'[w].pc = "idle") =>
              /\ \A vin \in MergedVins(workers[w]) :
                    \E n \in nhtsa_enrichment' :
                        n.vin = vin /\ n.data = workers[w].batch_specs[vin]
              /\ \A result \in PendingResults(workers[w]) :
                    \E n \in nhtsa_enrichment' :
                        /\ n.vin = result.VIN
                        /\ extract_specs_from_results(result) \subseteq n.data]_vars

----------------------------------------------------------------------------
(* insert_rows: rows without vin or loaddate *)

\* the rows of a batch that the loop does not pass over for a missing key
Keyed(rows) == SelectSeq(rows, LAMBDA row : ~RowSkipped(row))

\* the rows of a batch whose snapshot the loop writes
WrittenRows(rows) == {i \in DOMAIN rows : RowWritten(rows[i])}

\* C21: insert_rows passes over every row whose vin or loaddate is missing or
\* empty and treats the other rows as if the row were not in the batch: the
\* call with the row equals the call without it, in tables, return value and
\* exception; when the call returns, every row it wrote is in listings and
\* the return value is the number of snapshot writes, replacements included
C21_SkipsRowsWithoutKey ==
    /\ \A rows \in SeqsUpTo(FaultyRows, MaxRows) :
           insert_rows(rows) = insert_rows(Keyed(rows))
    /\ (last.op = "insert_rows" /\ ~last.raised) =>
           /\ inserted_count = Cardinality(WrittenRows(last.arg))
           /\ \A i \in WrittenRows(last.arg) :
                  \E r \in listings : /\ r.vin = last.arg[i].vin
                                      /\ r.loaddate = last.arg[i].loaddate

\* a two-row batch whose second row has an empty vin returned 1, and its
\* first row replaced the stored snapshot of the same key
C21_Witness ==
    /\ last.op = "insert_rows"
    /\ Len(last.arg) = 2
    /\ RowWritten(last.arg[1])
    /\ last.arg[2].vin = <<>>
    /\ ~last.raised
    /\ inserted_count = 1
    /\ last.replaced # {}
    /\ \E r \in listings : r.vin = last.arg[1].vin /\ r.loaddate = last.arg[1].loaddate

----------------------------------------------------------------------------
(* listings: snapshots are append-only *)

\* the (vin, loaddate) keys of a listings table
Keys(tbl) == {<<r.vin, r.loaddate>> : r \in tbl}

\* the keys of the rows of a batch whose snapshot the loop writes
WrittenKeys(rows) == {<<rows[i].vin, rows[i].loaddate>> : i \in WrittenRows(rows)}

\* C22: over every store operation (insert_rows, insert_nhtsa_enrichment,
\* insert_nhtsa_enrichment_batch) the set of (vin, loaddate) keys in listings
\* never shrinks: a returning insert_rows adds exactly the keys it wrote, any
\* other call leaves the keys alone, and listings holds one row per key, so a
\* vin written under d distinct loaddates has exactly d rows
C22_SnapshotsAppendOnly ==
    [][/\ Keys(listings) \subseteq Keys(listings')
       /\ ((last'.op = "insert_rows" /\ ~last'.raised)
              => (Keys(listings') = Keys(listings) \cup WrittenKeys(last'.arg)))
       /\ ((last'.op # "insert_rows" \/ last'.raised) => (listings' = listings))
       /\ Cardinality(listings') = Cardinality(Keys(listings'))]_vars

\* one vin has two snapshots, of two loaddates, and an enrichment write came
\* after them
C22_Witness ==
    /\ Cardinality({r \in listings : r.vin = VGood1}) = 2
    /\ Cardinality({r.loaddate : r \in {l \in listings : l.vin = VGood1}}) = 2
    /\ last.op = "insert_nhtsa_enrichment_batch"
    /\ nhtsa_enrichment # {}

----------------------------------------------------------------------------
(* price_history, listing_history: rows are immutable *)

\* C23: no store operation changes or removes a stored price_history or
\* listing_history row: each table before a call is a sub-bag of the table
\* after it, so an insert_rows that offers a stored unique key with another
\* trend or mileage leaves the stored row as it is
C23_HistoryImmutable ==
    [][/\ price_history \sqsubseteq price_history'
       /\ listing_history \sqsubseteq listing_history']_vars

\* price_history holds the entry with trend "up" and mileage "k1" alone, after
\* a call that wrote a snapshot whose priceHistory offers the same date and
\* price with trend "down" and mileage "k2"
C23_Witness ==
    /\ last.op = "insert_rows"
    /\ ~last.raised
    /\ Len(last.arg) = 1
    /\ RowWritten(last.arg[1])
    /\ last.arg[1].priceHistory = <<Entry("2023-12-01", "k2", "p1", "down")>>
    /\ BagToSet(price_history) =
           {[vin |-> VGood1, history_date |-> "2023-12-01", mileage |-> "k1",
             price |-> "p1", trend |-> "up"]}
    /\ BagCardinality(listing_history) = 2

----------------------------------------------------------------------------
(* The backlog of vins to enrich *)

\* C24: a vin that fails _is_valid_vin is never returned by
\* get_vins_for_enrichment, also when a snapshot with that vin is stored
C24_InvalidVinNotInBacklog ==
    \A vin \in get_vins_for_enrichment : _is_valid_vin(vin)

\* the vins of the request payload of the primary lookup for batch b
Payload(b) == Range(ValidVins(batches[b]))

\* C25: through enrich_database no nhtsa_enrichment row exists for a vin that
\* fails _is_valid_vin, given a primary lookup that returns records only for
\* vins of its payload: no such vin is in a payload, in the results a worker
\* holds, in the batch_specs a worker hands to the store, or in the table
C25_InvalidVinNotEnriched ==
    /\ \A b \in DOMAIN batches : \A vin \in Payload(b) : _is_valid_vin(vin)
    /\ \A w \in Threads :
           /\ \A i \in DOMAIN workers[w].results : _is_valid_vin(workers[w].results[i].VIN)
           /\ \A vin \in DOMAIN workers[w].batch_specs : _is_valid_vin(vin)
    /\ \A n \in nhtsa_enrichment : _is_valid_vin(n.vin)

\* a worker hands the specs of a batch to the store; the batch held a vin
\* that fails the filter, and the primary lookup was called for it
C25_Witness ==
    \E w \in Threads :
        /\ workers[w].pc = "store"
        /\ DOMAIN workers[w].batch_specs # {}
        /\ \E vin \in Range(batches[workers[w].batch]) : ~_is_valid_vin(vin)
        /\ CopiesIn(<<"decode", workers[w].batch>>, calls) = 1

\* the vins with a row in nhtsa_enrichment
EnrichedVins(tbl) == {n.vin : n \in tbl}

\* the vins an enrichment pass started in the current state would send to the
\* primary lookup
NextPayloads == UNION {Range(ValidVins(Batches(BacklogList)[b])) :
                          b \in DOMAIN Batches(BacklogList)}

\* C26: once an nhtsa_enrichment row is written for a vin, no later store
\* operation (insert_rows for the vin on any date, enrichment writes) removes
\* it, and the vin is not returned by get_vins_for_enrichment nor within the
\* payload of a later enrichment pass
C26_EnrichmentMonotonic ==
    /\ [][EnrichedVins(nhtsa_enrichment) \subseteq EnrichedVins(nhtsa_enrichment')]_vars
    /\ [](\A vin \in EnrichedVins(nhtsa_enrichment) :
              /\ vin \notin get_vins_for_enrichment
              /\ vin \notin Range(BacklogList)
              /\ vin \notin NextPayloads)

\* a vin with an enrichment row got a snapshot of a new date afterwards: the
\* row is still there and the vin, in listings twice, is not in the backlog
C26_Witness ==
    /\ last.op = "insert_rows"
    /\ ~last.raised
    /\ last.replaced = {}
    /\ \E i \in WrittenRows(last.arg) : last.arg[i].vin = VGood1
    /\ VGood1 \in EnrichedVins(nhtsa_enrichment)
    /\ Cardinality({r \in listings : r.vin = VGood1}) = 2
    /\ VGood1 \notin last.backlog
    /\ VGood1 \notin get_vins_for_enrichment

----------------------------------------------------------------------------
(* enrich_database: the batches of a pass *)

\* the batches of a list of batches, one after the other
RECURSIVE Flatten(_)
Flatten(seqs) == IF seqs = <<>> THEN <<>> ELSE Head(seqs) \o Flatten(Tail(seqs))

\* the places of a vin in the batches of the pass
PlacesOf(vin) == {<<b, i>> \in (DOMAIN batches) \X (1..(MAX_BATCH_SIZE + 1)) :
                     i <= Len(batches[b]) /\ batches[b][i] = vin}

\* C27: enrich_database partitions the backlog into consecutive batches:
\* the batches, one after the other, are the backlog list; each vin of the
\* backlog is in exactly one batch; no batch is empty or longer than
\* MAX_BATCH_SIZE and all but the last have exactly MAX_BATCH_SIZE vins; no
\* payload of the primary lookup has more than MAX_BATCH_SIZE vins, and the
\* lookup is called at most once for a batch
C27_BatchesPartitionBacklog ==
    (epc # "Idle") =>
        /\ Range(vins_to_process) = get_vins_for_enrichment
        /\ Flatten(batches) = vins_to_process
        /\ \A vin \in get_vins_for_enrichment : Cardinality(PlacesOf(vin)) = 1
        /\ \A b \in DOMAIN batches :
               /\ Len(batches[b]) \in 1..MAX_BATCH_SIZE
               /\ (b < Len(batches)) => (Len(batches[b]) = MAX_BATCH_SIZE)
               /\ Len(ValidVins(batches[b])) <= MAX_BATCH_SIZE
               /\ CopiesIn(<<"decode", b>>, calls) <= 1

\* a backlog of MAX_BATCH_SIZE + 1 vins went into a full batch and a batch
\* of one vin, and the primary lookup was called for both
C27_Witness ==
    /\ Len(batches) = 2
    /\ Len(batches[1]) = MAX_BATCH_SIZE
    /\ Len(batches[2]) = 1
    /\ CopiesIn(<<"decode", 1>>, calls) = 1
    /\ CopiesIn(<<"decode", 2>>, calls) = 1

----------------------------------------------------------------------------
(* enrich_database: the store calls of a pass *)

\* the insert_nhtsa_enrichment_batch calls made for batch b so far
StoreCallsOf(b) == {call \in BagToSet(store_calls) : call[1] = b}

\* C28: the results of a batch reach the store through at most one
\* insert_nhtsa_enrichment_batch call, made by the worker of the batch when
\* the loop over the results has come to its end, with all the vins merged
\* for the batch at once; nothing is written to nhtsa_enrichment outside
\* such a call, and a pass makes no more store calls than it has batches
C28_OneStoreCallPerBatch ==
    /\ [](/\ BagCardinality(store_calls) <= Len(batches)
          /\ \A call \in BagToSet(store_calls) :
                 /\ call[1] \in DOMAIN batches
                 /\ call[2] \in 1..Len(batches[call[1]])
                 /\ CopiesIn(call, store_calls) = 1
                 /\ StoreCallsOf(call[1]) = {call})
    /\ [][(store_calls' # store_calls) =>
             (\E w \in Threads :
                 /\ workers[w].pc = "store"
                 /\ PendingResults(workers[w]) = {}
                 /\ store_calls' = store_calls (+) SetToBag(
                        {<<workers[w].batch, Cardinality(MergedVins(workers[w]))>>}))]_vars
    /\ [][(nhtsa_enrichment' # nhtsa_enrichment) => (store_calls' # store_calls)]_vars

\* the pass has returned after a batch whose one store call handed over the
\* specs of two vins
C28_Witness ==
    /\ epc = "Returned"
    /\ \E call \in BagToSet(store_calls) : call[2] = 2 /\ call[1] \in finished

----------------------------------------------------------------------------
(* The shared store under callers on several threads *)

\* the four tables
Tables == <<listings, price_history, listing_history, nhtsa_enrichment>>

\* the thread ends its open call in this step
Ends(thread) == open_calls[thread].state = "open" /\ open_calls'[thread].state # "open"

----------------------------------------------------------------------------
(* insert_rows: one row does not stop the batch *)

\* C30: per-row isolation in insert_rows: a row without vin or loaddate, or
\* one whose snapshot insert fails, is passed over and never aborts the
\* batch: no exception leaves the call, and every row of the call that has
\* its key and whose own insert does not fail is committed
C30_RowIsolation ==
    (last.op = "insert_rows") =>
        /\ ~last.raised
        /\ \A i \in WrittenRows(last.arg) :
               \E r \in listings : /\ r.vin = last.arg[i].vin
                                   /\ r.loaddate = last.arg[i].loaddate
                                   /\ r.price = last.arg[i].price

----------------------------------------------------------------------------
(* process_batch: a lookup without results is cached *)

\* the cache of the service holds the empty result for the composite
EmptyEntry(service, key) ==
    /\ key \in DOMAIN CacheOf(service)
    /\ CacheOf(service)[key] = {}

\* the step is a step of the worker thread alone, at the statement
StepOf(w, at) ==
    /\ workers[w].pc = at
    /\ workers'[w] # workers[w]
    /\ \A v \in Threads \ {w} : workers'[v] = workers[v]

\* the cache write of the service
WriteOf(service) ==
    CASE service = "safety" -> "safety_write"
      [] service = "recalls" -> "recalls_write"
      [] service = "complaints" -> "complaints_write"

\* the column of nhtsa_enrichment that the fields of the service fill
ServiceColumn(service) ==
    CASE service = "safety" -> "nhtsa_overall_rating"
      [] service = "recalls" -> "nhtsa_total_recalls"
      [] service = "complaints" -> "nhtsa_total_complaints"

\* the specs of the current vin after a step of its worker: the specs dict,
\* or the entry of batch_specs once the vin is added to the batch
SpecsAfter(worker, after) ==
    IF after.pc = "result" THEN after.batch_specs[Head(worker.results).VIN]
    ELSE after.specs

----------------------------------------------------------------------------
(* run: the retry loop of one button *)

\* the positions of the buttons in CONTINUE_BUTTONS_XPATH
Buttons == 1..CONTINUE_BUTTONS_XPATH

----------------------------------------------------------------------------
(* enrich_database: the value returned *)

\* C33: enrich_database returns only when process_batch has ended for every
\* batch and every thread of the pool is free, and the value it returns,
\* total_enriched, is the number of nhtsa_enrichment records written during
\* the pass (the table holds no record for a vin of the backlog before the
\* pass); with an empty backlog it returns 0 and no request and no store call
\* is made
C33_ReturnsRecordsWritten ==
    (epc = "Returned") =>
        /\ finished = DOMAIN batches
        /\ \A w \in Threads : workers[w].pc = "idle"
        /\ total_enriched = Cardinality(nhtsa_enrichment)
        /\ (vins_to_process = <<>>) =>
               /\ total_enriched = 0
               /\ calls = EmptyBag
               /\ store_calls = EmptyBag

\* the pass has returned after two batches, each decoded by its request,
\* with a store call made for one of them
C33_Witness ==
    /\ epc = "Returned"
    /\ Len(batches) = 2
    /\ \A b \in DOMAIN batches : CopiesIn(<<"decode", b>>, calls) = 1
    /\ store_calls # EmptyBag

----------------------------------------------------------------------------
(* process_batch: results without make, model or model year *)

\* a request to an auxiliary service is sent only by a worker whose current
\* result has make, model and model year, for the composite of the result
LookupsOnlyForMmy ==
    [][\A service \in AuxServices, key \in MmyKeys :
          Calls(service, key) =>
              \E w \in Threads :
                  /\ StepOf(w, service)
                  /\ HasMmy(Head(workers[w].results))
                  /\ MmyKey(Head(workers[w].results)) = key]_vars

\* the loop body for a result that lacks one of the three sends no request,
\* reads and writes no cache, and puts the primary-decode fields of the vin
\* into batch_specs
NoLookupWithoutMmy ==
    [][\A w \in Threads :
          ( /\ StepOf(w, "result")
            /\ ~LoopEnded(workers[w])
            /\ ~HasMmy(Head(workers[w].results)) )
          => /\ calls' = calls
             /\ <<cache_safety, cache_recalls, cache_complaints>>' =
                    <<cache_safety, cache_recalls, cache_complaints>>
             /\ \A service \in AuxServices : CachedOf(workers'[w], service) = Miss
             /\ workers'[w].pc = "result"
             /\ workers'[w].batch_specs[Head(workers[w].results).VIN] =
                    extract_specs_from_results(Head(workers[w].results))]_vars

\* the vins process_batch has merged from a result without make
UnresolvedVins(worker) ==
    {vin \in MergedVins(worker) : <<"nhtsa_Make", "">> \in worker.batch_specs[vin]}

\* when a process_batch call ends, every vin it merged from a result without
\* make has a row in nhtsa_enrichment with its primary-decode fields
UnresolvedWritten ==
    [][\A w \in Threads :
          (workers[w].pc # "idle" /\ workers'[w].pc = "idle") =>
              \A vin \in UnresolvedVins(workers[w]) :
                  \E n \in nhtsa_enrichment' :
                      n.vin = vin /\ n.data = workers[w].batch_specs[vin]]_vars

\* C34: auxiliary lookups are issued only for a primary result in which make,
\* model and model year are all non-empty; a returned vin that lacks one of
\* them triggers no auxiliary call and no cache access, and is written to
\* nhtsa_enrichment with its primary-decode fields
C34_UnresolvedWrittenWithoutLookup ==
    /\ LookupsOnlyForMmy
    /\ NoLookupWithoutMmy
    /\ UnresolvedWritten

----------------------------------------------------------------------------
(* run: the ways out of the round loop *)

\* C35: the round loop has no iteration cap. run leaves the loop only by the
\* break of a round without a successful click, by the fatal connectivity
\* fault of a click attempt, by an interrupt, or by an unexpected exception;
\* a successful click sets any_button_clicked, which stays set for the rest
\* of the round, and a round that comes to its check with any_button_clicked
\* set is followed by the next round, whatever its number
C35_NoIterationCap ==
    /\ [][(pc \notin ExitStates /\ pc' \in ExitStates) =>
              \/ pc = "Check" /\ ~any_button_clicked /\ pc' = "Converged"
              \/ pc = "Click" /\ outcome'.kind = "fatal" /\ pc' = "Aborted"
              \/ pc' = "Interrupted"
              \/ pc' = "Failed"]_vars
    /\ [][(clicks_ok' > clicks_ok) => any_button_clicked']_vars
    /\ [][(any_button_clicked /\ pc \in {"Click", "Extract"}) =>
              (any_button_clicked' \/ pc' = "Aborted")]_vars
    /\ [][(pc = "Check" /\ any_button_clicked) =>
              (pc' = "RoundStart" /\ iteration' = iteration + 1)]_vars

\* the loop has gone on after each of two rounds with a successful click and
\* is at the top of its third round
C35_Witness ==
    /\ pc = "RoundStart"
    /\ iteration = 3
    /\ productive_rounds = 2
    /\ clicks_ok >= 2

----------------------------------------------------------------------------
(* The store: history entries and their snapshots *)

\* the vins of the rows of price_history and listing_history
HistoryVins ==
    {h.vin : h \in BagToSet(price_history)} \cup {h.vin : h \in BagToSet(listing_history)}

\* the history rows a step adds to a history table
AddedTo(tbl, after) == {h \in BagToSet(after) : CopiesIn(h, after) > CopiesIn(h, tbl)}

\* C36: every vin that appears in price_history or listing_history has at
\* least one listings row; a call of insert_rows adds a history row only for
\* a row of its batch whose snapshot it wrote, from the nested history entries
\* of that row: rows passed over for a missing vin or loaddate and rows whose
\* snapshot insert failed add none
C36_HistoryHasSnapshot ==
    /\ [](\A vin \in HistoryVins : \E r \in listings : r.vin = vin)
    /\ [][\A h \in AddedTo(price_history, price_history') :
              \E i \in WrittenRows(last'.arg) :
                  /\ last'.arg[i].vin = h.vin
                  /\ \E k \in DOMAIN last'.arg[i].priceHistory :
                         last'.arg[i].priceHistory[k].date = h.history_date]_vars
    /\ [][\A h \in AddedTo(listing_history, listing_history') :
              \E i \in WrittenRows(last'.arg) :
                  /\ last'.arg[i].vin = h.vin
                  /\ \E k \in DOMAIN last'.arg[i].listingHistory :
                         last'.arg[i].listingHistory[k].date = h.history_date]_vars

\* a call has written the snapshot and the history entry of one row and
\* passed over a row whose snapshot insert failed, which carried a history
\* entry as well
C36_Witness ==
    /\ last.op = "insert_rows"
    /\ ~last.raised
    /\ \E i, j \in DOMAIN last.arg :
           /\ RowWritten(last.arg[i])
           /\ last.arg[i].priceHistory # <<>>
           /\ ~RowSkipped(last.arg[j])
           /\ InsertFails(last.arg[j])
           /\ last.arg[j].priceHistory # <<>>
    /\ HistoryVins = {VGood1}
    /\ \E r \in listings : r.vin = VGood1

----------------------------------------------------------------------------
(* run: the round that ends the run *)

\* the buttons whose MAX_RETRIES attempts of the current round all ended in a
\* retried exception
RetriedOutNow == IF outcome.round = iteration THEN outcome.retried_out ELSE {}

\* the buttons clicked in the current round
ClickedNow == IF outcome.round = iteration THEN outcome.clicked ELSE {}

\* C37: when run ends by the break of the loop, no button was clicked in the
\* final round, and every button is in unclickable_buttons or had all its
\* MAX_RETRIES attempts of the final round end in a retried exception
C37_ConvergedAllExhaustedOrRetried ==
    (pc = "Converged") =>
        /\ ~any_button_clicked
        /\ \A b \in Buttons : b \in unclickable_buttons \/ b \in RetriedOutNow
        /\ ClickedNow = {}

\* the run has converged after a productive round, with one button in the
\* exhausted set and one whose retries ran out in the final round
C37_Witness ==
    /\ pc = "Converged"
    /\ productive_rounds >= 1
    /\ unclickable_buttons = {1}
    /\ RetriedOutNow = {2}

----------------------------------------------------------------------------
(* run: extraction before the check of every round *)

\* the responses the page delivered to the successful clicks of the run
Captured == 1..clicks_ok

\* C38: the extraction step runs in every round before the check of
\* any_button_clicked, the final round included, so when run ends by the
\* break of the loop every response captured during the run has been read
\* from the log and its rows have been passed to insert_rows
C38_ExtractedBeforeConverged ==
    /\ [][(pc' = "Check" /\ pc # "Check") => pc = "Extract"]_vars
    /\ [][(pc' = "Converged" /\ pc # "Converged") => pc = "Check"]_vars
    /\ [](pc = "Converged" => Captured \subseteq seen_api_request_ids)
    /\ [][\A id \in seen_api_request_ids' \ seen_api_request_ids :
              /\ last'.op = "insert_rows"
              /\ RowsOfRequest(last'.arg, id) = 1]_vars

----------------------------------------------------------------------------
(* enrich_database: cache_lock and the end of the pass *)

\* C39: the pass cannot deadlock on cache_lock. A thread takes cache_lock only
\* when it is free, so never while it holds it; the only thread that holds
\* the lock across steps is one inside the with block of _apply_rate_limit,
\* whose next step releases it; and when every external call and every store
\* write returns, every process_batch call ends and enrich_database returns,
\* with the lock free and every thread of the pool free
C39_NoDeadlockOnCacheLock ==
    /\ [](\A w \in Threads : cache_lock = w => workers[w].gate = "in")
    /\ [][\A w \in Threads :
              /\ (cache_lock' = w /\ cache_lock # w) => cache_lock = 0
              /\ (cache_lock = w /\ workers'[w] # workers[w]) => cache_lock' = 0
              /\ (cache_lock = w) => (cache_lock' \in {0, w})]_vars
    /\ [](epc = "Returned" => (cache_lock = 0 /\ \A w \in Threads : workers[w].pc = "idle"))
    /\ <>(epc = "Returned")

\* a pass of two threads has returned after both took cache_lock for the rate
\* limit and one wrote the caches under it
C39_Witness ==
    /\ epc = "Returned"
    /\ max_workers = 2
    /\ Len(batches) = 2
    /\ \A b \in DOMAIN batches : CopiesIn(<<"decode", b>>, calls) = 1
    /\ DOMAIN cache_complaints # {}
    /\ cache_lock = 0

----------------------------------------------------------------------------
(* _parse_performance_logs: responses whose body cannot be read *)

\* the Network.getResponseBody calls made for a requestId during the run
FetchesOf(id) ==
    CopiesIn(<<id, "body">>, fetched) + CopiesIn(<<id, "none">>, fetched)

\* C40: a requestId is in seen_api_request_ids from the moment its body is
\* asked for, whatever the fetch yields, so the body of a response is asked
\* for at most once in the run, also when the browser reports the response
\* again; a response whose body fetch failed or was empty never gets a row
\* into the store
C40_FailedBodyNeverRetried ==
    \A f \in BagToSet(fetched) :
        /\ f[1] \in seen_api_request_ids
        /\ FetchesOf(f[1]) = 1
        /\ (f[2] = "none") => ~\E r \in listings : r.vin = VinOfResponse(f[1])

\* the body fetch of response 1 failed in the first extraction; the browser
\* reported the response again, and the second extraction has read a log with
\* responses 1 and 2 and stored the rows of response 2 only
C40_Witness ==
    /\ pc = "Check"
    /\ logs = <<1, 2>>
    /\ BagToSet(fetched) = {<<1, "none">>, <<2, "body">>}
    /\ last.op = "insert_rows"
    /\ last.arg = ExtractRowsFromApiData(2)

============================================================================
